---- MODULE Spec2Model ----
(***************************************************************************)
(* Crawl controller of the OG-Tool web scraper: the browser ScrapingEngine *)
(* (src/src/utils/ScrapingEngine.ts) and the edge-function ServerScraper   *)
(* (src/supabase/functions/web-scraper/index.ts), with the part of the     *)
(* ScraperInterface component that starts and stops a crawl.               *)
(*                                                                         *)
(* A string is a sequence of tokens: a token is a separator ("/", ".",     *)
(* "#", "@", " ") or a maximal run of other characters.  Regular           *)
(* expressions of the source are evaluated on these sequences.             *)
(***************************************************************************)
EXTENDS Integers, Sequences, FiniteSets, TLC

\* ------------------------------------------------------------------------
\* Bounds of the model
\* ------------------------------------------------------------------------

\* largest config.maxPages of the small-site crawls
MaxPagesBound == 4

\* largest config.maxDepth of the small-site crawls
MaxDepthBound == 1

\* number of pages of the paginated site (more than either hard ceiling
\* would be needed to cap the browser engine; enough to cap the edge function)
ChainLen == 103

\* longest author string handed to generateUserId on its own (five codes
\* are needed for the hash to pass 2^31)
MaxAuthorLen == 5

\* largest number of content selectors that match an element in a document
\* handed to the content strategies on their own
MaxCandidates == 2

\* the most items in a result the client is handed
MaxItems == 2

\* ------------------------------------------------------------------------
\* Program constants
\* ------------------------------------------------------------------------

EngineCeiling == 1000

ServerCeiling == 100

EngineMinContent == 100

ServerMinContent == 500

\* ------------------------------------------------------------------------
\* Strings
\* ------------------------------------------------------------------------

Min(a, b) == IF a < b THEN a ELSE b

\* String.prototype.toLowerCase on one token
LowerTok(t) ==
  CASE t = "Blog"  -> "blog"
    [] t = "Read"  -> "read"
    [] t = "More"  -> "more"
    [] t = "PNG"   -> "png"
    [] t = "Example" -> "example"
    [] t = "Guide" -> "guide"
    [] t = "Weblog" -> "weblog"
    [] t = "Documentation" -> "documentation"
    [] t = "Article" -> "article"
    [] t = "Transcript" -> "transcript"
    [] t = "Docs" -> "docs"
    [] t = "Company" -> "company"
    [] t = "Full" -> "full"
    [] OTHER -> t

\* a sequence given by a function on 1..n, as a tuple
Tup(f) == f \o <<>>

toLowerCase(s) == Tup([i \in 1..Len(s) |-> LowerTok(s[i])])

endsWith(s, t) ==
  /\ Len(t) <= Len(s)
  /\ SubSeq(s, Len(s) - Len(t) + 1, Len(s)) = t

startsWith(s, t) ==
  /\ Len(t) <= Len(s)
  /\ SubSeq(s, 1, Len(t)) = t

RECURSIVE trimStart(_)
trimStart(s) == IF s # <<>> /\ Head(s) = " " THEN trimStart(Tail(s)) ELSE s

RECURSIVE trimEnd(_)
trimEnd(s) ==
  IF s # <<>> /\ s[Len(s)] = " " THEN trimEnd(SubSeq(s, 1, Len(s) - 1)) ELSE s

\* String.prototype.trim
trim(s) == trimEnd(trimStart(s))

\* String.prototype.includes, and an unanchored literal regular expression
includes(s, t) ==
  \E i \in 1..(Len(s) - Len(t) + 1) : SubSeq(s, i, i + Len(t) - 1) = t

\* a literal followed by at least the characters of word w: /\/login/ matches
\* "/login" and "/login-form" alike
WordPrefixes(t) ==
  CASE t = "login-form" -> {"login-form", "login"}
    [] t = "searching"  -> {"searching", "search"}
    [] t = "about-us"   -> {"about-us", "about"}
    [] OTHER -> {t}

includesSlashWord(s, w) ==
  \E i \in 1..(Len(s) - 1) : s[i] = "/" /\ w \in WordPrefixes(s[i + 1])

NoSlash(s) == \A i \in 1..Len(s) : s[i] # "/"

\* decimal renderings of the page numbers of the paginated site
PageNumbers == 1..(ChainLen + 1)

NumTok == [n \in PageNumbers |-> ToString(n)]

NumTokSet == {NumTok[n] : n \in PageNumbers}

\* number of characters of a token made of decimal digits only, else 0
DigitsLen(t) ==
  CASE t = "2024" -> 4
    [] t = "01" -> 2
    [] t \in NumTokSet ->
         (LET n == CHOOSE k \in PageNumbers : NumTok[k] = t
          IN  IF n < 10 THEN 1 ELSE IF n < 100 THEN 2 ELSE IF n < 1000 THEN 3 ELSE 4)
    [] OTHER -> 0

\* ------------------------------------------------------------------------
\* URLs: new URL(...), .hostname, .href
\* ------------------------------------------------------------------------

Https == <<"https:", "/", "/">>

\* the value standing for "new URL(...) threw"
Invalid == <<>>

\* index of the last token of the authority component
AuthEnd(u) ==
  LET stops == {i \in 4..Len(u) : u[i] \in {"/", "?", "#"}}
  IN  IF stops = {} THEN Len(u)
      ELSE (CHOOSE i \in stops : \A j \in stops : i <= j) - 1

\* index of the first token of the host inside the authority (after userinfo)
HostStart(u) ==
  LET ats == {i \in 4..AuthEnd(u) : u[i] = "@"}
  IN  IF ats = {} THEN 4
      ELSE (CHOOSE i \in ats : \A j \in ats : j <= i) + 1

\* new URL(u) does not throw
IsValidURL(u) ==
  /\ startsWith(u, Https)
  /\ HostStart(u) <= AuthEnd(u)
  /\ \A i \in 1..Len(u) : u[i] # "["

\* new URL(u).hostname (ports do not occur in the model)
hostname(u) == toLowerCase(SubSeq(u, HostStart(u), AuthEnd(u)))

\* new URL(u).href for an absolute u: the host in lower case, "/" for an
\* empty path
Normalize(u) ==
  SubSeq(u, 1, HostStart(u) - 1)
    \o hostname(u)
    \o (IF AuthEnd(u) = Len(u) THEN <<"/">> ELSE SubSeq(u, AuthEnd(u) + 1, Len(u)))

Origin(u) == SubSeq(Normalize(u), 1, AuthEnd(u))

\* new URL(href, baseUrl).href, Invalid when it throws.  The hrefs of the
\* model are non-empty and absolute, root-relative ("/...") or fragment-only
\* ("#...").
\* index of the last token before the fragment
FragCut(u) ==
  LET hs == {i \in 1..Len(u) : u[i] = "#"}
  IN  IF hs = {} THEN Len(u)
      ELSE (CHOOSE i \in hs : \A j \in hs : i <= j) - 1

Resolve(href, baseUrl) ==
  IF href[1] \in {"https:", "http:"}
       THEN (IF IsValidURL(href) THEN Normalize(href) ELSE Invalid)
  ELSE IF href[1] = "/" THEN Origin(baseUrl) \o href
  ELSE IF href[1] = "#"
       THEN SubSeq(Normalize(baseUrl), 1, FragCut(Normalize(baseUrl))) \o href
  ELSE Invalid

\* ------------------------------------------------------------------------
\* Link filters
\* ------------------------------------------------------------------------

\* isSameDomain looking for the seed's hostname anywhere in the URL
isSameDomainIncludes(url, domain) ==
  /\ IsValidURL(url)
  /\ includes(url, domain)

\* isSameDomain of ScrapingEngine: the hostname is the seed's or ends in
\* "." + seed hostname
isSameDomain(url, domain) ==
  /\ IsValidURL(url)
  /\ \/ hostname(url) = domain
     \/ endsWith(hostname(url), (<<".">>) \o domain)

\* /\.(jpg|jpeg|png|gif|svg|pdf|doc|docx|zip|rar)$/i
EngineExtensions ==
  {"jpg", "jpeg", "png", "gif", "svg", "pdf", "doc", "docx", "zip", "rar"}

\* /\.(jpg|jpeg|png|gif|svg|pdf)$/i
ServerExtensions == {"jpg", "jpeg", "png", "gif", "svg", "pdf"}

endsWithExtension(s, exts) ==
  /\ Len(s) >= 2
  /\ s[Len(s) - 1] = "."
  /\ LowerTok(s[Len(s)]) \in exts

\* isExcludedPath of ScrapingEngine (the URL is tested as it is, only the
\* extension test ignores case)
isExcludedPath(url) ==
  \/ endsWithExtension(url, EngineExtensions)
  \/ includes(url, <<"/", "api", "/">>)
  \/ includes(url, <<"/", "admin", "/">>)
  \/ includesSlashWord(url, "login")
  \/ includesSlashWord(url, "logout")
  \/ includesSlashWord(url, "register")
  \/ includesSlashWord(url, "search")
  \/ includes(url, <<"/", "tag", "/">>)
  \/ includes(url, <<"/", "category", "/">>)
  \/ includes(url, <<"#">>)

\* /\/w\/?$/ for a word w
endsWithSection(s, w) ==
  \/ endsWith(s, <<"/", w>>)
  \/ endsWith(s, <<"/", w, "/">>)

\* isBlogListingPage of the edge function
isBlogListingPage(url) ==
  LET lowerUrl == toLowerCase(url)
  IN  \/ endsWithSection(lowerUrl, "blog")
      \/ \E i \in 1..(Len(lowerUrl) - 5) :
            /\ SubSeq(lowerUrl, i, i + 4) = <<"/", "blog", "/", "page", "/">>
            /\ DigitsLen(lowerUrl[i + 5]) > 0
      \/ endsWithSection(lowerUrl, "articles")
      \/ endsWithSection(lowerUrl, "posts")
      \/ endsWithSection(lowerUrl, "news")

\* /\/w\/[^\/]+/ for a word w
hasSegmentAfter(s, w) ==
  \E i \in 1..(Len(s) - 3) :
     /\ SubSeq(s, i, i + 2) = <<"/", w, "/">>
     /\ s[i + 3] # "/"

\* the articlePatterns of isIndividualArticleLink
hasArticlePattern(lowerUrl) ==
  \* /\/blog\/[^\/]+\/?$/
  \/ \E i \in 1..(Len(lowerUrl) - 3) :
        /\ SubSeq(lowerUrl, i, i + 2) = <<"/", "blog", "/">>
        /\ \/ NoSlash(SubSeq(lowerUrl, i + 3, Len(lowerUrl)))
           \/ /\ lowerUrl[Len(lowerUrl)] = "/"
              /\ i + 3 <= Len(lowerUrl) - 1
              /\ NoSlash(SubSeq(lowerUrl, i + 3, Len(lowerUrl) - 1))
  \* /\/blog\/\d{4}\/\d{2}\/[^\/]+/
  \/ \E i \in 1..(Len(lowerUrl) - 7) :
        /\ SubSeq(lowerUrl, i, i + 2) = <<"/", "blog", "/">>
        /\ DigitsLen(lowerUrl[i + 3]) = 4
        /\ lowerUrl[i + 4] = "/"
        /\ DigitsLen(lowerUrl[i + 5]) = 2
        /\ lowerUrl[i + 6] = "/"
        /\ lowerUrl[i + 7] # "/"
  \* /\/article\/[^\/]+/
  \/ hasSegmentAfter(lowerUrl, "article")
  \* /\/post\/[^\/]+/
  \/ hasSegmentAfter(lowerUrl, "post")
  \* /\/[^\/]+\/$/
  \/ /\ Len(lowerUrl) >= 3
     /\ lowerUrl[Len(lowerUrl)] = "/"
     /\ lowerUrl[Len(lowerUrl) - 1] # "/"
     /\ \E j \in 1..(Len(lowerUrl) - 2) : lowerUrl[j] = "/"

\* the readMoreTexts of isIndividualArticleLink
readMoreTexts ==
  { <<"read", " ", "more">>, <<"continue", " ", "reading">>,
    <<"full", " ", "article">>, <<"read", " ", "full">>,
    <<"learn", " ", "more">>, <<"view", " ", "post">>,
    <<"read", " ", "article">>, <<"more", " ", "details">>,
    <<"read", " ", "story">> }

\* the excludePatterns of isIndividualArticleLink
shouldExclude(lowerUrl) ==
  \/ endsWithExtension(lowerUrl, ServerExtensions)
  \/ includes(lowerUrl, <<"/", "tag", "/">>)
  \/ includes(lowerUrl, <<"/", "category", "/">>)
  \/ includes(lowerUrl, <<"/", "author", "/">>)
  \/ includesSlashWord(lowerUrl, "search")
  \/ includesSlashWord(lowerUrl, "login")
  \/ includesSlashWord(lowerUrl, "register")
  \/ includesSlashWord(lowerUrl, "contact")
  \/ includesSlashWord(lowerUrl, "about")
  \/ includes(lowerUrl, <<"#">>)

\* isIndividualArticleLink of the edge function
isIndividualArticleLink(url, linkText, domain) ==
  /\ IsValidURL(url)
  /\ hostname(url) = domain
  /\ ~shouldExclude(toLowerCase(url))
  /\ \/ hasArticlePattern(toLowerCase(url))
     \/ \E t \in readMoreTexts : includes(toLowerCase(linkText), t)

\* the elements of seq at the positions in idx, in order
Pick(seq, idx) ==
  Tup([k \in 1..Cardinality(idx) |->
         seq[CHOOSE i \in idx : Cardinality({j \in idx : j <= i}) = k]])

\* [...new Set(links)]: the first occurrence of each value, in order
Dedup(links) ==
  Pick(links, {i \in 1..Len(links) : \A j \in 1..(i - 1) : links[j] # links[i]})

\* extractLinks of ScrapingEngine followed by extractDynamicContentLinks:
\* anchors pass the same-domain and exclusion tests, data-url values only the
\* same-domain test
extractLinks(html, baseUrl, domain) ==
  LET hrefs == Tup([i \in 1..Len(html.anchors) |-> Resolve(html.anchors[i].href, baseUrl)])
      fromAnchors ==
        Pick(hrefs, {i \in 1..Len(hrefs) :
                       /\ hrefs[i] # Invalid
                       /\ isSameDomain(hrefs[i], domain)
                       /\ ~isExcludedPath(hrefs[i])})
      data == Tup([i \in 1..Len(html.dataUrls) |-> Resolve(html.dataUrls[i], baseUrl)])
      fromData ==
        Pick(data, {i \in 1..Len(data) :
                      data[i] # Invalid /\ isSameDomain(data[i], domain)})
  IN  Dedup(fromAnchors \o fromData)

\* extractArticleLinks of the edge function
extractArticleLinks(html, baseUrl, domain) ==
  LET resolved ==
        Tup([i \in 1..Len(html.anchors) |->
               [url |-> Resolve(html.anchors[i].href, baseUrl),
                text |-> html.anchors[i].text]])
      kept == Pick(resolved, {i \in 1..Len(resolved) :
                                /\ resolved[i].url # Invalid
                                /\ isIndividualArticleLink(resolved[i].url,
                                                           resolved[i].text, domain)})
  IN  Dedup(Tup([i \in 1..Len(kept) |-> kept[i].url]))

\* ------------------------------------------------------------------------
\* The web: pages and replies
\* ------------------------------------------------------------------------

SeedBlog == Https \o <<"example", ".", "com", "/", "blog">>

SeedRoot == Https \o <<"example", ".", "com">>

\* a seed on a www host with a subdomain
SeedWww == Https \o <<"www", ".", "shop", ".", "example", ".", "com">>

\* a targetUrl that new URL(...) rejects: no scheme
SeedBad == <<"example", ".", "com">>

SeedChain == Https \o <<"example", ".", "com", "/", "blog", "/", "page", "/", "1", "/">>

A(h, t) == [href |-> h, text |-> t]

\* the character codes of "Jane Doe"
JaneDoe == <<74, 97, 110, 101, 32, 68, 111, 101>>

\* A document is what the extractors read from an html string:
\*   anchors, dataUrls   the <a href> elements and data-url attributes
\*   len                 length of the text left by the tag-stripping of
\*                       ScrapingEngine.extractContent
\*   article, body       length of the cleaned text of the first content
\*                       container and of the body without unwanted elements
\*   title, h1           text of <title> and of the first <h1> (<<>>: none)
\*   words               the words of the text that detectContentType looks for
\*   author              character codes of the first capture of the author
\*                       patterns (<<>>: no pattern matches)

\* an article that links back to the listing and on to another article
DocArticle ==
  [anchors |-> << A(<<"/", "blog">>, <<"Blog">>),
                  A(<<"/", "blog", "/", "post-2">>, <<"Read", " ", "More">>) >>,
   dataUrls |-> <<>>,
   len |-> 600, article |-> 600, body |-> 700,
   title |-> <<"Post">>, h1 |-> <<>>, words |-> <<>>, author |-> JaneDoe]

\* a listing with a repeated link, a further listing page and an "about" link
DocListing ==
  [anchors |-> << A(<<"/", "blog", "/", "post-1">>, <<"Read", " ", "More">>),
                  A(<<"/", "blog", "/", "post-2">>, <<"post", " ", "two">>),
                  A(<<"/", "blog", "/", "post-1">>, <<"again">>),
                  A(<<"/", "blog", "/", "page", "/", "2", "/">>, <<"Older">>),
                  A(<<"/", "about-us">>, <<"About">>) >>,
   dataUrls |-> <<>>,
   len |-> 300, article |-> 0, body |-> 300,
   title |-> <<"Our", " ", "Blog">>, h1 |-> <<>>, words |-> <<>>, author |-> <<>>]

\* a page too short to yield an item: links that leave the seed's host, a
\* malformed href, links the filters are meant to drop, data-url attributes
DocMixed ==
  [anchors |-> << A(Https \o <<"sub", ".", "example", ".", "com", "/", "docs", "/">>, <<"Docs">>),
                  A(Https \o <<"notexample", ".", "com", "/", "blog", "/", "post-1">>, <<"Read", " ", "More">>),
                  A(Https \o <<"example", ".", "com", "@", "evil", ".", "com", "/", "blog", "/", "post-9">>, <<"Read", " ", "More">>),
                  A(Https, <<"broken">>),
                  A(Https \o <<"Example", ".", "com">>, <<"Home">>),
                  A(<<"/", "login-form">>, <<"Sign", " ", "in">>),
                  A(<<"#", "top">>, <<"Top">>),
                  A(<<"/", "logo", ".", "PNG">>, <<"Logo">>) >>,
   dataUrls |-> << <<"/", "api", "/", "feed">>,
                   Https \o <<"evil", ".", "com", "/", "feed">> >>,
   len |-> 50, article |-> 50, body |-> 50,
   title |-> <<>>, h1 |-> <<>>, words |-> <<>>, author |-> <<>>]

Docs == {DocArticle, DocListing, DocMixed}

\* the single page of a one-page site: an <article> of 600 characters and
\* <meta name="author" content="Jane Doe">, no links
DocJane ==
  [anchors |-> <<>>, dataUrls |-> <<>>,
   len |-> 650, article |-> 600, body |-> 650,
   title |-> <<"Release", " ", "notes">>, h1 |-> <<>>, words |-> <<>>, author |-> JaneDoe]

\* the same page with a title that names the blog
DocJaneBlog ==
  [anchors |-> <<>>, dataUrls |-> <<>>,
   len |-> 650, article |-> 600, body |-> 650,
   title |-> <<"Company", " ", "Blog">>, h1 |-> <<>>, words |-> <<>>, author |-> JaneDoe]

\* a one-page site whose text is longer than the cap of the edge function
DocLong ==
  [anchors |-> <<>>, dataUrls |-> <<>>,
   len |-> 12000, article |-> 12000, body |-> 12500,
   title |-> <<>>, h1 |-> <<"Full", " ", "Transcript">>, words |-> <<"transcript">>,
   author |-> <<>>]

\* a one-page site with <title> </title> and no <h1>
DocBlankTitle ==
  [anchors |-> <<>>, dataUrls |-> <<>>,
   len |-> 650, article |-> 600, body |-> 650,
   title |-> <<" ">>, h1 |-> <<>>, words |-> <<>>, author |-> <<>>]

\* a one-page site with <meta name="author" content=" ">
DocBlankAuthor ==
  [anchors |-> <<>>, dataUrls |-> <<>>,
   len |-> 650, article |-> 600, body |-> 650,
   title |-> <<"Release", " ", "notes">>, h1 |-> <<>>, words |-> <<>>, author |-> <<32>>]

\* page number of a URL of the paginated site (".../blog/page/<n>/")
PageNo(url) == CHOOSE k \in PageNumbers : NumTok[k] = url[Len(url) - 1]

\* page n of the paginated site links to page n + 1
ChainDoc(url) ==
  [anchors |-> IF PageNo(url) < ChainLen
               THEN << A(<<"/", "blog", "/", "page", "/", NumTok[PageNo(url) + 1], "/">>,
                         <<"Next">>) >>
               ELSE <<>>,
   dataUrls |-> <<>>,
   len |-> 600, article |-> 600, body |-> 600,
   title |-> <<"Page">>, h1 |-> <<>>, words |-> <<>>, author |-> <<>>]

\* what a server can do with one request
\*   ok        2xx and a complete body
\*   bad_body  2xx and a complete body that a proxy caller cannot use
\*   stalled   2xx headers, then the body never completes
\*   status    a non-2xx status
\*   error     the request fails (network error)
\*   no_reply  the server never answers
Replies == {"ok", "bad_body", "stalled", "status", "error", "no_reply"}

\* ------------------------------------------------------------------------
\* Content extraction: detectContentType, extractAuthor, generateUserId
\* ------------------------------------------------------------------------

\* the words detectContentType looks for that occur inside a lower-case token
WordParts(t) ==
  CASE t = "blog" -> {"blog"}
    [] t = "weblog" -> {"blog"}
    [] t = "guide" -> {"guide"}
    [] t = "guidebook" -> {"guide"}
    [] t = "documentation" -> {"documentation"}
    [] t = "article" -> {"article"}
    [] t = "articles" -> {"article"}
    [] t = "transcript" -> {"transcript"}
    [] t = "transcripts" -> {"transcript"}
    [] OTHER -> {}

\* String.prototype.includes for a single word
includesWord(s, w) == \E i \in 1..Len(s) : w \in WordParts(s[i])

\* the same rules with the guide rule tested first
detectContentTypeGuideFirst(title, content, url) ==
  LET lowerTitle == toLowerCase(title)
      lowerContent == toLowerCase(content)
      lowerUrl == toLowerCase(url)
  IN  IF includes(lowerUrl, <<"/", "guide", "/">>) \/ includesWord(lowerTitle, "guide")
        THEN "guide"
      ELSE IF includes(lowerUrl, <<"/", "blog", "/">>) \/ includesWord(lowerTitle, "blog")
        THEN "blog"
      ELSE IF includes(lowerUrl, <<"/", "docs", "/">>) \/ includesWord(lowerTitle, "documentation")
        THEN "documentation"
      ELSE IF includes(lowerUrl, <<"/", "article", "/">>) \/ includesWord(lowerTitle, "article")
        THEN "article"
      ELSE IF includesWord(lowerContent, "transcript") THEN "transcript"
      ELSE IF includes(lowerUrl, <<"/", "podcast", "/">>) THEN "podcast_transcript"
      ELSE "other"

\* detectContentType of ScrapingEngine and of the edge function
detectContentType(title, content, url) ==
  LET lowerTitle == toLowerCase(title)
      lowerContent == toLowerCase(content)
      lowerUrl == toLowerCase(url)
  IN  IF includes(lowerUrl, <<"/", "blog", "/">>) \/ includesWord(lowerTitle, "blog")
        THEN "blog"
      ELSE IF includes(lowerUrl, <<"/", "docs", "/">>) \/ includesWord(lowerTitle, "documentation")
        THEN "documentation"
      ELSE IF includes(lowerUrl, <<"/", "article", "/">>) \/ includesWord(lowerTitle, "article")
        THEN "article"
      ELSE IF includes(lowerUrl, <<"/", "guide", "/">>) \/ includesWord(lowerTitle, "guide")
        THEN "guide"
      ELSE IF includesWord(lowerContent, "transcript") THEN "transcript"
      ELSE IF includes(lowerUrl, <<"/", "podcast", "/">>) THEN "podcast_transcript"
      ELSE "other"

\* match[1].trim() on character codes
trimCodes(codes) ==
  LET kept == {i \in 1..Len(codes) : codes[i] \notin ({9, 10, 11, 12, 13, 32, 160})}
  IN  IF kept = {} THEN <<>>
      ELSE SubSeq(codes, CHOOSE i \in kept : \A j \in kept : i <= j,
                         CHOOSE i \in kept : \A j \in kept : j <= i)

extractAuthorNone(html) == <<>>

\* extractAuthor: the first capture of the author patterns, undefined (<<>>)
\* when none matches
extractAuthor(html) == trimCodes(html.author)

\* A 32-bit pattern is kept as two 16-bit halves, [hi, lo].
Half == 65536

Zero32 == [hi |-> 0, lo |-> 0]

\* hash << 5
Shl5(h) ==
  LET l == h.lo * 32
  IN  [hi |-> (h.hi * 32 + l \div Half) % Half, lo |-> l % Half]

\* a - b, modulo 2^32
Sub32(a, b) ==
  LET borrow == IF a.lo < b.lo THEN 1 ELSE 0
  IN  [hi |-> (a.hi - b.hi - borrow + 2 * Half) % Half,
       lo |-> (a.lo - b.lo + Half) % Half]

\* a + c for a character code c, modulo 2^32
AddCode(a, c) ==
  LET l == a.lo + c
  IN  [hi |-> (a.hi + l \div Half) % Half, lo |-> l % Half]

\* one round of the loop without the subtraction: (hash << 5) + char
hashStepShiftOnly(h, c) == AddCode(Shl5(h), c)

\* one round of the loop: hash = ((hash << 5) - hash) + char; hash = hash & hash
hashStep(h, c) == AddCode(Sub32(Shl5(h), h), c)

RECURSIVE hashOf(_)
\* the value of hash after the loop over the characters of author
hashOf(author) ==
  IF author = <<>> THEN Zero32
  ELSE hashStep(hashOf(SubSeq(author, 1, Len(author) - 1)), author[Len(author)])

\* Math.abs of the signed value of a 32-bit pattern, as a pattern: 2^31 for
\* the pattern of -2^31
Abs32(h) == IF h.hi >= Half \div 2 THEN Sub32(Zero32, h) ELSE h

\* quotient and remainder of a pattern divided by ten
DivTen(h) ==
  LET t == (h.hi % 10) * Half + h.lo
  IN  [q |-> [hi |-> h.hi \div 10, lo |-> t \div 10], r |-> t % 10]

RECURSIVE toDecimal(_)
\* the decimal digits of a pattern read as an unsigned number
toDecimal(h) ==
  IF h.hi = 0 /\ h.lo < 10 THEN <<h.lo>>
  ELSE toDecimal(DivTen(h).q) \o <<DivTen(h).r>>

\* generateUserId: `user_${Math.abs(hash)}`
generateUserId(author) == <<"user_">> \o toDecimal(Abs32(hashOf(author)))

\* the cap of the content of an item of the edge function
MaxContent == 10000

\* the length above which a content strategy of the edge function succeeds
StrategyMinContent == 200

\* contentSelectors of the edge function's extractContent
contentSelectors ==
  << "article", "[role=\"main\"]", "main", ".post-content", ".article-content",
     ".entry-content", ".blog-post", ".content", ".post-body", ".article-body",
     ".single-post", ".post-single" >>

\* doc.querySelector(selector) found no element
Absent == -1

RECURSIVE strategyOne(_, _)
\* the loop over contentSelectors from index i on: found[k] is the length of
\* the cleaned text of the first element matching selector k; the index at
\* which the loop breaks, 0 when it runs to its end
strategyOne(found, i) ==
  IF i > Len(contentSelectors) THEN 0
  ELSE IF found[i] # Absent /\ found[i] > StrategyMinContent THEN i
  ELSE strategyOne(found, i + 1)

\* the content taken from the longest of the candidates that qualify
strategyContentLongest(found, body) ==
  LET q == {i \in 1..Len(contentSelectors) : found[i] > StrategyMinContent}
  IN  IF q = {} THEN [from |-> "body", len |-> body]
      ELSE LET i == CHOOSE k \in q : \A j \in q : found[j] < found[k] \/ (found[j] = found[k] /\ k <= j)
           IN  [from |-> contentSelectors[i], len |-> found[i]]

\* the content the two strategies end with: where it comes from and its
\* length; strategy 2 takes the text of the body without the unwanted
\* elements (an html document always has a body)
strategyContent(found, body) ==
  IF strategyOne(found, 1) # 0
  THEN [from |-> contentSelectors[strategyOne(found, 1)],
        len |-> found[strategyOne(found, 1)]]
  ELSE [from |-> "body", len |-> body]

\* ------------------------------------------------------------------------
\* State
\* ------------------------------------------------------------------------

VARIABLES
  variant,         \* "engine": ScrapingEngine, "server": edge-function ServerScraper
  site,            \* "small": pages drawn from Docs, "chain": the paginated site,
                   \* "single": a site of one page
  config,          \* ScrapingConfig: targetUrl, maxPages, delayMs, maxDepth, respectRobots
  pc,              \* position of scrape(): idle, robots, loop, fetch, delay, done, blocked;
                   \* rejected: the constructor threw
  urlQueue,        \* this.urlQueue
  visitedUrls,     \* this.visitedUrls
  results,         \* this.results
  processedCount,  \* the local processedCount of scrape()
  cur,             \* the entry taken by shift() that is being processed
  strategy,        \* scrapePage of ScrapingEngine: 0 direct fetch, 1..3 the proxies
  isRunning,       \* ScraperInterface state isRunning
  stopRequested,   \* history: stopScraping was called during this crawl
  shiftedOnce,     \* history: the URLs removed by shift() at least once
  shiftedAgain,    \* history: the URLs removed by shift() more than once
  placed,          \* history: every entry ever put in urlQueue, with its origin
  processed,       \* history: the URLs marked visited and fetched, in order
  failed,          \* history: the URLs whose page could not be fetched
  page,            \* history: the document of the page fetched last, if it was read
  response,        \* the Response the serve handler of the edge function returned last
  call,            \* the last call of a pure function: its name, argument and value
  waited,          \* history: delay() was awaited since the last page was taken up
  attempt,         \* history: the reply to the latest fetch strategy of scrapePage
  returned,        \* the ScrapingResult {team_id, items} scrape() returned last
  progress         \* the arguments of the last onProgress call of ScrapingEngine.scrape

vars == <<variant, site, config, pc, urlQueue, visitedUrls, results,
          processedCount, cur, strategy, isRunning, stopRequested,
          shiftedOnce, shiftedAgain, placed, processed, failed,
          page, response, call, waited, attempt, returned, progress>>

\* this.domain, set by the constructor
domain == hostname(config.targetUrl)

\* the page limit taken from the configuration as it is
maxPagesNoCeiling == config.maxPages

maxPages == Min(config.maxPages, (IF variant = "engine" THEN EngineCeiling ELSE ServerCeiling))

\* the item with a user_id whatever the author
ItemAlwaysUserId(url, html, title, words, length) ==
  [source_url |-> url,
   placeholder |-> FALSE,
   len |-> length,
   title |-> title,
   content_type |-> detectContentType(title, words, url),
   author |-> extractAuthor(html),
   user_id |-> generateUserId(extractAuthor(html))]

\* the ScrapedItem built by extractContent; len is content.length, user_id
\* is undefined (<<>>) without an author
Item(url, html, title, words, length) ==
  [source_url |-> url,
   placeholder |-> FALSE,
   len |-> length,
   title |-> title,
   content_type |-> detectContentType(title, words, url),
   author |-> extractAuthor(html),
   user_id |-> IF extractAuthor(html) # <<>>
               THEN generateUserId(extractAuthor(html)) ELSE <<>>]

\* createDemoContent of ScrapingEngine
createDemoContent(url) ==
  [source_url |-> url,
   placeholder |-> TRUE,
   len |-> 1000,
   title |-> <<"Demo", " ", "Content">>,
   content_type |-> "documentation",
   author |-> <<"Web", " ", "Scraper", " ", "Demo">>,
   user_id |-> <<"demo_user_123">>]

SmallConfigs ==
  [targetUrl : {SeedBlog, SeedRoot},
   maxPages : {-1, 0, 1, MaxPagesBound},
   delayMs : {0, 1000},
   maxDepth : 0..MaxDepthBound,
   respectRobots : BOOLEAN]

\* the paginated site is crawled with limits above the edge function's ceiling
ChainConfigs ==
  [targetUrl : {SeedChain},
   maxPages : {ServerCeiling + 1},
   delayMs : {0},
   maxDepth : {ServerCeiling + 1},
   respectRobots : {FALSE}]

\* the one-page site is crawled from a listing URL and from the root
SingleConfigs ==
  [targetUrl : {SeedBlog, SeedRoot, SeedWww},
   maxPages : {1, MaxPagesBound},
   delayMs : {0},
   maxDepth : {0},
   respectRobots : {FALSE}]

\* configurations whose targetUrl does not parse
BadConfigs ==
  [targetUrl : {SeedBad},
   maxPages : {1},
   delayMs : {0},
   maxDepth : {0},
   respectRobots : BOOLEAN]

\* the documents a URL can hold
Served(url) ==
  CASE site = "chain" -> {ChainDoc(url)}
    [] site = "single" -> ({DocJane, DocJaneBlog, DocLong, DocBlankTitle, DocBlankAuthor})
    [] OTHER -> Docs

\* the paginated site answers or refuses the connection; any other site does
\* what it likes
Network == IF site = "chain" THEN {"ok", "error"} ELSE Replies

\* no page fetched yet, no response returned yet, no pure function called yet
NoPage == [anchors |-> <<>>]

NoResponse == [status |-> 0]

NoCall == [op |-> "none"]

NoProgress == [current |-> 0, total |-> 0, url |-> <<>>]

\* the state right after construction, before scrape() is called
Constructed ==
  /\ pc = "idle"
  /\ page = NoPage
  /\ response = NoResponse
  /\ urlQueue = <<>>
  /\ visitedUrls = {}
  /\ results = <<>>
  /\ processedCount = 0
  /\ cur = ([url |-> <<>>, depth |-> 0])
  /\ strategy = 0
  /\ isRunning = FALSE
  /\ stopRequested = FALSE
  /\ shiftedOnce = {}
  /\ shiftedAgain = {}
  /\ placed = {}
  /\ processed = <<>>
  /\ failed = {}
  /\ waited = FALSE
  /\ attempt = "none"
  /\ returned = ([team_id |-> <<>>, items |-> <<>>])
  /\ progress = NoProgress

Init ==
  /\ variant \in {"engine", "server"}
  /\ site \in {"small", "chain", "single"}
  /\ config \in (CASE site = "chain" -> ChainConfigs
                   [] site = "single" -> SingleConfigs \cup BadConfigs
                   [] OTHER -> SmallConfigs)
  /\ Constructed
  /\ call = NoCall

Placed(entries, by) ==
  {[url |-> entries[i].url, depth |-> entries[i].depth, by |-> by] : i \in 1..Len(entries)}

\* ------------------------------------------------------------------------
\* scrape(): entry, robots.txt, the loop
\* ------------------------------------------------------------------------

\* corsHeaders of the edge function
corsHeaders ==
  { <<"Access-Control-Allow-Origin", "*">>,
    <<"Access-Control-Allow-Methods", "POST, OPTIONS">>,
    <<"Access-Control-Allow-Headers", "authorization, x-client-info, apikey, content-type">> }

\* the answer to a preflight request: new Response('ok', {headers: corsHeaders})
optionsResponse ==
  [status |-> 200, method |-> "OPTIONS", headers |-> corsHeaders,
   body |-> [text |-> <<"ok">>]]

\* extractTeamId replacing the first "." only
extractTeamIdFirstDot(host) ==
  LET bare == IF startsWith(host, <<"www", ".">>) THEN SubSeq(host, 3, Len(host)) ELSE host
      dots == {i \in 1..Len(bare) : bare[i] = "."}
  IN  Tup([i \in 1..Len(bare) |->
             IF i \in dots /\ \A j \in dots : i <= j THEN "_" ELSE bare[i]])

\* extractTeamId: a leading "www." removed, every "." replaced by "_"
extractTeamId(host) ==
  LET bare == IF startsWith(host, <<"www", ".">>) THEN SubSeq(host, 3, Len(host)) ELSE host
  IN  Tup([i \in 1..Len(bare) |-> IF bare[i] = "." THEN "_" ELSE bare[i]])

\* the answer after scrape() returned: the result {team_id, items} as JSON
resultResponse(items) ==
  [status |-> 200, method |-> "POST",
   headers |-> {<<"Content-Type", "application/json">>} \cup corsHeaders,
   body |-> [team_id |-> extractTeamId(domain), items |-> items]]

\* the error answer built without spreading corsHeaders
errorResponseNoCors(method, message) ==
  [status |-> 500, method |-> method,
   headers |-> {<<"Content-Type", "application/json">>},
   body |-> [error |-> message, team_id |-> <<"error">>, items |-> <<>>]]

\* the error answer built without `status: 500`
errorResponseDefaultStatus(method, message) ==
  [status |-> 200, method |-> method,
   headers |-> {<<"Content-Type", "application/json">>} \cup corsHeaders,
   body |-> [error |-> message, team_id |-> <<"error">>, items |-> <<>>]]

\* the answer of the catch block of the handler: status 500, the message of
\* the error, team_id 'error', no items
errorResponse(method, message) ==
  [status |-> 500, method |-> method,
   headers |-> {<<"Content-Type", "application/json">>} \cup corsHeaders,
   body |-> [error |-> message, team_id |-> <<"error">>, items |-> <<>>]]

\* the message of the error thrown for a targetUrl that does not parse:
\* the TypeError of new URL in the edge function, the Error of the
\* constructor of ScrapingEngine
InvalidUrlMessage ==
  IF variant = "server" THEN <<"Invalid", " ", "URL">>
  ELSE <<"Invalid", " ", "target", " ", "URL">>

\* serve handler, req.method === 'OPTIONS': answered before the try block
ServeOptions ==
  /\ pc = "idle"
  /\ variant = "server"
  /\ response' = optionsResponse
  /\ UNCHANGED <<returned, progress, waited, attempt, page, call, variant, site, config, pc, urlQueue, visitedUrls,
                 results, processedCount, cur, strategy, isRunning, stopRequested,
                 shiftedOnce, shiftedAgain, placed, processed, failed>>

\* serve handler, a request whose body is not JSON with a config: req.json()
\* or config.targetUrl throws and the catch block answers
ServeRejected ==
  /\ pc = "idle"
  /\ variant = "server"
  /\ \E req \in { [method |-> "GET", message |-> <<"Unexpected", " ", "end", " ", "of", " ", "JSON", " ", "input">>],
                  [method |-> "POST", message |-> <<"Unexpected", " ", "end", " ", "of", " ", "JSON", " ", "input">>],
                  [method |-> "POST", message |-> <<"Cannot", " ", "read", " ", "properties", " ", "of", " ", "undefined">>] } : response' = errorResponse(req.method, req.message)
  /\ UNCHANGED <<returned, progress, waited, attempt, page, call, variant, site, config, pc, urlQueue, visitedUrls,
                 results, processedCount, cur, strategy, isRunning, stopRequested,
                 shiftedOnce, shiftedAgain, placed, processed, failed>>

\* the items of one page put in front of the earlier ones
PushedInFront(rs, items) == items \o rs

\* this.results after results.push(item) for the items of one page
Pushed(rs, items) == rs \o items

\* the links of a listing page put behind the queue, as push would
UnshiftedBehind(q, entries) == q \o entries

\* this.urlQueue after the unshift calls of a listing page; entries is in
\* the order the calls leave them in
Unshifted(q, entries) == entries \o q

\* the constructor returning for any targetUrl
ConstructorReturnsAlways == TRUE

\* new URL(config.targetUrl) in the constructor does not throw
ConstructorReturns == IsValidURL(config.targetUrl)

\* the constructor throws: the handler of the edge function answers from its
\* catch block, the caller of ScrapingEngine gets the error; scrape() is
\* never called
ConstructorThrows ==
  /\ pc = "idle"
  /\ ~ConstructorReturns
  /\ pc' = "rejected"
  /\ response' = IF variant = "server" THEN errorResponse("POST", InvalidUrlMessage)
                 ELSE response
  /\ UNCHANGED <<returned, progress, waited, attempt, page, call, variant, site, config, urlQueue, visitedUrls,
                 results, processedCount, cur, strategy, isRunning, stopRequested,
                 shiftedOnce, shiftedAgain, placed, processed, failed>>

\* startScraping of ScraperInterface calling scrape(), or the serve handler
\* of the edge function constructing a ServerScraper and calling scrape():
\* the seed is queued
Scrape ==
  /\ pc = "idle"
  /\ ConstructorReturns
  /\ isRunning' = TRUE
  /\ urlQueue' = Append(urlQueue, [url |-> config.targetUrl, depth |-> 0])
  /\ placed' = placed \cup {[url |-> config.targetUrl, depth |-> 0, by |-> "seed"]}
  /\ processedCount' = 0
  /\ pc' = IF variant = "engine" /\ config.respectRobots THEN "robots" ELSE "loop"
  /\ response' = NoResponse
  /\ UNCHANGED <<returned, progress, waited, attempt, page, call, variant, site, config, visitedUrls, results, cur, strategy,
                 stopRequested, shiftedOnce, shiftedAgain, processed, failed>>

\* outcome of `await fetchWithTimeout(url, t)`: the timer aborts a request
\* that has not produced a response
fetchWithTimeout(reply) ==
  CASE reply \in {"ok", "bad_body", "stalled", "status"} -> "resolved"
    [] reply \in {"error", "no_reply"} -> "rejected"

\* outcome of `await fetch(url, {headers})` of the edge function
fetchPlain(reply) ==
  CASE reply \in {"ok", "bad_body", "stalled", "status"} -> "resolved"
    [] reply = "error" -> "rejected"
    [] reply = "no_reply" -> "pending"

\* response.ok
responseOk(reply) == reply \in {"ok", "bad_body", "stalled"}

\* `await response.text()` / `await response.json()` completes
bodyCompletes(reply) == reply # "stalled"

\* checkRobotsTxt of ScrapingEngine returns: the body was read, the status
\* was not 2xx, or the fetch was rejected and the error swallowed
CheckRobotsTxt ==
  /\ pc = "robots"
  /\ \E reply \in Network :
       \/ fetchWithTimeout(reply) = "rejected"
       \/ fetchWithTimeout(reply) = "resolved" /\ ~responseOk(reply)
       \/ fetchWithTimeout(reply) = "resolved" /\ responseOk(reply) /\ bodyCompletes(reply)
  /\ pc' = "loop"
  /\ UNCHANGED <<returned, progress, waited, attempt, page, response, call, variant, site, config, urlQueue, visitedUrls, results,
                 processedCount, cur, strategy, isRunning, stopRequested,
                 shiftedOnce, shiftedAgain, placed, processed, failed>>

\* the while condition letting one page too many through
LoopGuardOffByOne == Len(urlQueue) > 0 /\ processedCount <= maxPages

\* the while condition
LoopGuard == Len(urlQueue) > 0 /\ processedCount < maxPages

\* the head of the queue read without being removed
ShiftedKeepsHead(q) == q

\* the queue after shift()
Shifted(q) == Tail(q)

\* the skip test without the visited check
SkipTestDepthOnly(entry) == entry.depth > config.maxDepth

\* the skip test without the depth check
SkipTestVisitedOnly(entry) == entry.url \in visitedUrls

\* the test that makes the loop `continue` right after shift()
SkipTest(entry) == entry.url \in visitedUrls \/ entry.depth > config.maxDepth

\* the loop ends and scrape() returns {team_id, items}; the caller's
\* `finally` clears isRunning
LoopExit ==
  /\ pc = "loop"
  /\ ~LoopGuard
  /\ pc' = "done"
  /\ isRunning' = FALSE
  /\ response' = IF variant = "server" THEN resultResponse(results) ELSE response
  /\ \E host \in {domain} :
        returned' = [team_id |-> extractTeamId(host), items |-> results]
  /\ UNCHANGED <<progress, waited, attempt, page, call, variant, site, config, urlQueue, visitedUrls, results,
                 processedCount, cur, strategy, stopRequested,
                 shiftedOnce, shiftedAgain, placed, processed, failed>>

\* a skipped entry counted as a page
countAfterContinueCharged == processedCount + 1

\* the continue of the skip test comes before processedCount++
countAfterContinue == processedCount

\* shift() followed by `continue`
SkipEntry ==
  /\ pc = "loop"
  /\ LoopGuard
  /\ SkipTest(Head(urlQueue))
  /\ urlQueue' = Shifted(urlQueue)
  /\ shiftedOnce' = shiftedOnce \cup {Head(urlQueue).url}
  /\ shiftedAgain' = shiftedAgain \cup ({Head(urlQueue).url} \cap shiftedOnce)
  /\ processedCount' = countAfterContinue
  /\ UNCHANGED <<returned, progress, waited, attempt, page, response, call, variant, site, config, pc, visitedUrls, results,
                 cur, strategy, isRunning, stopRequested,
                 placed, processed, failed>>

\* onProgress called with a total that counts the queue only
onProgressQueueOnly(count, queued, url) ==
  [current |-> count, total |-> Min(queued, maxPages), url |-> url]

\* this.onProgress?.(processedCount, Math.min(this.urlQueue.length +
\* processedCount, maxPages), url), with the count and the queue length at
\* the call
onProgress(count, queued, url) ==
  [current |-> count, total |-> Min(queued + count, maxPages), url |-> url]

\* the URL taken up is not recorded as visited
visitedUrlsAddNothing(url) == visitedUrls

\* this.visitedUrls.add(url), before scrapePage is called
visitedUrlsAdd(url) == visitedUrls \cup {url}

\* shift(), visitedUrls.add(url), processedCount++
BeginPage ==
  /\ pc = "loop"
  /\ LoopGuard
  /\ ~SkipTest(Head(urlQueue))
  /\ urlQueue' = Shifted(urlQueue)
  /\ shiftedOnce' = shiftedOnce \cup {Head(urlQueue).url}
  /\ shiftedAgain' = shiftedAgain \cup ({Head(urlQueue).url} \cap shiftedOnce)
  /\ cur' = Head(urlQueue)
  /\ visitedUrls' = visitedUrlsAdd(Head(urlQueue).url)
  /\ processedCount' = processedCount + 1
  /\ processed' = Append(processed, Head(urlQueue).url)
  /\ strategy' = 0
  /\ page' = NoPage
  /\ waited' = FALSE
  /\ attempt' = "none"
  /\ progress' = IF variant = "engine"
                 THEN onProgress(processedCount + 1, Len(Shifted(urlQueue)), Head(urlQueue).url)
                 ELSE progress
  /\ pc' = "fetch"
  /\ UNCHANGED <<returned, response, call, variant, site, config, results, isRunning, stopRequested,
                 placed, failed>>

\* where the iteration goes after a page was handled without an exception
AfterPage == IF config.delayMs > 0 THEN "delay" ELSE "loop"

\* an exception that leaves the loop instead of being caught inside it
AfterCatchAborts == "aborted"

\* where the iteration goes from the catch block of the loop
AfterCatch == "loop"

\* `await this.delay(delayMs)`
Delay ==
  /\ pc = "delay"
  /\ pc' = "loop"
  /\ waited' = TRUE
  /\ UNCHANGED <<returned, progress, attempt, page, response, call, variant, site, config, urlQueue, visitedUrls, results,
                 processedCount, cur, strategy, isRunning, stopRequested,
                 shiftedOnce, shiftedAgain, placed, processed, failed>>

\* ------------------------------------------------------------------------
\* ScrapingEngine: scrapePage and processPageContent
\* ------------------------------------------------------------------------

\* index of the last fetch strategy: corsProxies has three entries
LastStrategy == 3

\* this.corsProxies, in list order; strategy k > 0 is corsProxies[k]
corsProxies == <<"api.allorigins.win", "corsproxy.io", "cors-anywhere.herokuapp.com">>

\* a proxy taking whatever body a 2xx response carries
UsableAnyBody(reply, k) ==
  /\ fetchWithTimeout(reply) = "resolved"
  /\ responseOk(reply)
  /\ bodyCompletes(reply)

\* the attempt yields an html string that is handed to processPageContent:
\* the direct fetch takes any 2xx body, a proxy only a string longer than 100
Usable(reply, k) ==
  /\ fetchWithTimeout(reply) = "resolved"
  /\ responseOk(reply)
  /\ bodyCompletes(reply)
  /\ (k = 0 \/ reply = "ok")

\* the attempt is awaiting a body that never completes; the timer was cleared
\* when the response arrived
Stalls(reply) ==
  /\ fetchWithTimeout(reply) = "resolved"
  /\ responseOk(reply)
  /\ ~bodyCompletes(reply)

\* the title of ScrapingEngine.extractContent: the trimmed text of <title>
\* when the element has text, else 'Untitled'
EngineTitle(html) == IF html.title = <<>> THEN <<"Untitled">> ELSE trim(html.title)

\* extractContent of ScrapingEngine without the minimum length
EngineContentNoMin(html, url) ==
  <<Item(url, html, EngineTitle(html), html.title \o html.h1 \o html.words, html.len)>>

\* extractContent of ScrapingEngine: null below 100 characters; the content
\* is the text of the whole page, title included
EngineContent(html, url) ==
  IF html.len < EngineMinContent THEN <<>>
  ELSE <<Item(url, html, EngineTitle(html), html.title \o html.h1 \o html.words, html.len)>>

\* processPageContent pushing every same-domain link, visited or not
EngineNewEntriesUnchecked(html, url, depth) ==
  LET links == extractLinks(html, url, domain)
      same == Pick(links, {i \in 1..Len(links) : isSameDomain(links[i], domain)})
  IN  Tup([i \in 1..Len(same) |-> [url |-> same[i], depth |-> depth + 1]])

\* the entries processPageContent pushes: links not yet visited, same domain
EngineNewEntries(html, url, depth) ==
  LET links == extractLinks(html, url, domain)
      fresh == Pick(links, {i \in 1..Len(links) :
                              links[i] \notin visitedUrls /\ isSameDomain(links[i], domain)})
  IN  Tup([i \in 1..Len(fresh) |-> [url |-> fresh[i], depth |-> depth + 1]])

\* a strategy succeeds: processPageContent, then the item is pushed to results
EngineFetchOk ==
  /\ pc = "fetch"
  /\ variant = "engine"
  /\ \E reply \in Network : Usable(reply, strategy) /\ attempt' = reply
  /\ \E html \in Served(cur.url) :
       \E entries \in {EngineNewEntries(html, cur.url, cur.depth)} :
          /\ urlQueue' = urlQueue \o entries
          /\ placed' = placed \cup Placed(entries, "link")
          /\ results' = Pushed(results, EngineContent(html, cur.url))
          /\ page' = html
  /\ pc' = AfterPage
  /\ UNCHANGED <<returned, progress, waited, response, call, variant, site, config, visitedUrls, processedCount, cur,
                 strategy, isRunning, stopRequested, shiftedOnce, shiftedAgain, processed, failed>>

\* a strategy other than the last fails: the next one is tried
EngineFetchFail ==
  /\ pc = "fetch"
  /\ variant = "engine"
  /\ strategy < LastStrategy
  /\ \E reply \in Network : ~Usable(reply, strategy) /\ ~Stalls(reply) /\ attempt' = reply
  /\ strategy' = strategy + 1
  /\ UNCHANGED <<returned, progress, waited, page, response, call, variant, site, config, pc, urlQueue, visitedUrls, results,
                 processedCount, cur, isRunning, stopRequested,
                 shiftedOnce, shiftedAgain, placed, processed, failed>>

\* the placeholder made whenever results is empty, at any depth
NeedsDemoAnyDepth(depth) == Len(results) = 0

\* the test before createDemoContent: depth === 0 && this.results.length === 0
NeedsDemo(depth) == depth = 0 /\ Len(results) = 0

\* the last proxy fails: the placeholder for a seed with no result so far,
\* else the error is thrown to the catch block of the loop
EngineAllFailed ==
  /\ pc = "fetch"
  /\ variant = "engine"
  /\ strategy = LastStrategy
  /\ \E reply \in Network : ~Usable(reply, strategy) /\ ~Stalls(reply) /\ attempt' = reply
  /\ failed' = failed \cup {cur.url}
  /\ IF NeedsDemo(cur.depth)
     THEN /\ results' = Pushed(results, <<createDemoContent(cur.url)>>)
          /\ pc' = AfterPage
     ELSE /\ results' = results
          /\ pc' = AfterCatch
  /\ UNCHANGED <<returned, progress, waited, page, response, call, variant, site, config, urlQueue, visitedUrls,
                 processedCount, cur, strategy, isRunning, stopRequested,
                 shiftedOnce, shiftedAgain, placed, processed>>

\* `await response.text()` / `await response.json()` never completes
EngineFetchStall ==
  /\ pc = "fetch"
  /\ variant = "engine"
  /\ \E reply \in Network : Stalls(reply) /\ attempt' = reply
  /\ pc' = "blocked"
  /\ UNCHANGED <<returned, progress, waited, page, response, call, variant, site, config, urlQueue, visitedUrls, results,
                 processedCount, cur, strategy, isRunning, stopRequested,
                 shiftedOnce, shiftedAgain, placed, processed, failed>>

\* checkRobotsTxt awaiting a body that never completes
RobotsStall ==
  /\ pc = "robots"
  /\ \E reply \in Network : Stalls(reply)
  /\ pc' = "blocked"
  /\ UNCHANGED <<returned, progress, waited, attempt, page, response, call, variant, site, config, urlQueue, visitedUrls, results,
                 processedCount, cur, strategy, isRunning, stopRequested,
                 shiftedOnce, shiftedAgain, placed, processed, failed>>

\* ------------------------------------------------------------------------
\* Edge-function ServerScraper: the body of the loop
\* ------------------------------------------------------------------------

\* the title of the edge function's extractContent: the first <h1>, else
\* <title>, else 'Untitled'
ServerTitle(html) ==
  IF trim(html.h1) # <<>> THEN trim(html.h1)
  ELSE IF trim(html.title) # <<>> THEN trim(html.title)
  ELSE <<"Untitled">>

\* length of the content the strategies of the edge function end with: the
\* content container when it has more than 200 characters, else the body;
\* the documents of the crawls have an <article> or no container at all
ServerContentLen(html) ==
  strategyContent([i \in 1..Len(contentSelectors) |->
                     IF i = 1 /\ html.article > 0 THEN html.article ELSE Absent],
                  html.body).len

\* content.slice(0, 10000)
Sliced(length) == Min(length, MaxContent)

\* the content kept whatever its length
contentKeptUnchecked(length) == Sliced(length)

\* if (content.length < 500) return null; else content.slice(0, 10000): the
\* length of the content of the item, Absent when there is no item
contentKept(length) ==
  IF length < ServerMinContent THEN Absent ELSE Sliced(length)

\* extractContent of the edge function: null below 500 characters
ServerContent(html, url) ==
  IF contentKept(ServerContentLen(html)) = Absent THEN <<>>
  ELSE <<Item(url, html, ServerTitle(html), html.words, contentKept(ServerContentLen(html)))>>

\* what a fetched page adds to the front of the queue: the article links of
\* a listing page, nothing for any other page;
\* articleLinks.forEach(link => if not visited, unshift({link, depth 1})):
\* each link goes in front of the ones before it
ServerPageEntries(html, url) ==
  IF isBlogListingPage(url)
  THEN LET links == extractArticleLinks(html, url, domain)
           fresh == Pick(links, {i \in 1..Len(links) : links[i] \notin visitedUrls})
       IN  Tup([i \in 1..Len(fresh) |-> [url |-> fresh[Len(fresh) + 1 - i], depth |-> 1]])
  ELSE <<>>

\* extractContent applied to every fetched page, listing or not
ServerPageItemsAlways(html, url) == ServerContent(html, url)

\* what a fetched page adds to results: nothing for a listing page, else the
\* item of extractContent if there is one
ServerPageItems(html, url) ==
  IF isBlogListingPage(url) THEN <<>> ELSE ServerContent(html, url)

\* a 2xx response with a complete body: links of a listing page are queued
\* at the front, any other page is handed to extractContent
ServerFetchOk ==
  /\ pc = "fetch"
  /\ variant = "server"
  /\ \E reply \in Network :
       fetchPlain(reply) = "resolved" /\ responseOk(reply) /\ bodyCompletes(reply)
  /\ \E html \in Served(cur.url) :
       \E entries \in {ServerPageEntries(html, cur.url)} :
          /\ urlQueue' = Unshifted(urlQueue, entries)
          /\ placed' = placed \cup Placed(entries, "link")
          /\ results' = Pushed(results, ServerPageItems(html, cur.url))
          /\ page' = html
  /\ pc' = AfterPage
  /\ UNCHANGED <<returned, progress, waited, attempt, response, call, variant, site, config, visitedUrls, processedCount, cur,
                 strategy, isRunning, stopRequested, shiftedOnce, shiftedAgain, processed, failed>>

\* a non-2xx response: logged, `continue`
ServerFetchStatus ==
  /\ pc = "fetch"
  /\ variant = "server"
  /\ \E reply \in Network : fetchPlain(reply) = "resolved" /\ ~responseOk(reply)
  /\ failed' = failed \cup {cur.url}
  /\ pc' = "loop"
  /\ UNCHANGED <<returned, progress, waited, attempt, page, response, call, variant, site, config, urlQueue, visitedUrls, results,
                 processedCount, cur, strategy, isRunning, stopRequested,
                 shiftedOnce, shiftedAgain, placed, processed>>

\* fetch rejects: the catch block of the loop
ServerFetchThrows ==
  /\ pc = "fetch"
  /\ variant = "server"
  /\ \E reply \in Network : fetchPlain(reply) = "rejected"
  /\ failed' = failed \cup {cur.url}
  /\ pc' = AfterCatch
  /\ UNCHANGED <<returned, progress, waited, attempt, page, response, call, variant, site, config, urlQueue, visitedUrls, results,
                 processedCount, cur, strategy, isRunning, stopRequested,
                 shiftedOnce, shiftedAgain, placed, processed>>

\* the awaited fetch or body never completes and nothing aborts it
ServerFetchHang ==
  /\ pc = "fetch"
  /\ variant = "server"
  /\ \E reply \in Network :
       \/ fetchPlain(reply) = "pending"
       \/ fetchPlain(reply) = "resolved" /\ responseOk(reply) /\ ~bodyCompletes(reply)
  /\ pc' = "blocked"
  /\ UNCHANGED <<returned, progress, waited, attempt, page, response, call, variant, site, config, urlQueue, visitedUrls, results,
                 processedCount, cur, strategy, isRunning, stopRequested,
                 shiftedOnce, shiftedAgain, placed, processed, failed>>

\* ------------------------------------------------------------------------
\* ScraperInterface
\* ------------------------------------------------------------------------

\* {!isRunning ? <Button onClick={startScraping}> ...}: the Start button is
\* rendered, and startScraping can be called, exactly when isRunning is false
StartShown == ~isRunning

\* scrape() has been called and has not returned
InFlight == pc \in {"robots", "loop", "fetch", "delay", "blocked"}

\* the Stop button, shown while isRunning: it only changes component state
stopScraping ==
  /\ isRunning
  /\ isRunning' = FALSE
  /\ stopRequested' = TRUE
  /\ UNCHANGED <<returned, progress, waited, attempt, page, response, call, variant, site, config, pc, urlQueue, visitedUrls, results,
                 processedCount, cur, strategy, shiftedOnce, shiftedAgain, placed, processed, failed>>

\* ------------------------------------------------------------------------
\* Specifications
\* ------------------------------------------------------------------------

\* the steps of a crawl in which every awaited request completes or fails
CrawlStep ==
  \/ Scrape
  \/ CheckRobotsTxt
  \/ LoopExit
  \/ SkipEntry
  \/ BeginPage
  \/ Delay
  \/ EngineFetchFail
  \/ EngineAllFailed
  \/ ServerFetchStatus
  \/ ServerFetchThrows
  \/ EngineFetchOk
  \/ ServerFetchOk

Next ==
  \/ CrawlStep
  \/ ConstructorThrows
  \/ EngineFetchStall
  \/ RobotsStall
  \/ ServerFetchHang
  \/ stopScraping
  \/ ServeOptions
  \/ ServeRejected

Spec == Init /\ [][Next]_vars

\* every awaited request completes or fails, and the event loop keeps
\* running the crawl
NextLive == CrawlStep \/ stopScraping \/ ServeOptions \/ ServeRejected

\* the crawls whose scraper was constructed
LiveInit == Init /\ ConstructorReturns

LiveSpec == LiveInit /\ [][NextLive]_vars /\ WF_vars(CrawlStep)

RepeatInit ==
  /\ variant = "engine"
  /\ site = "small"
  /\ config \in ([targetUrl : {SeedBlog, SeedRoot}, maxPages : {1, 2}, delayMs : {0}, maxDepth : {1}, respectRobots : {FALSE}])
  /\ Constructed
  /\ call = NoCall

\* visitedUrls emptied at the start of a call
visitedUrlsAtCallCleared == {}

\* visitedUrls is a field set in the field initializer only: a later call
\* starts with what the earlier calls left in it
visitedUrlsAtCall == visitedUrls

\* a later scrape() on the same instance: the seed is pushed behind what is
\* left in urlQueue, processedCount is a local that starts at 0, and
\* visitedUrls and results are as the last call left them
ScrapeAgain ==
  /\ pc = "done"
  /\ variant = "engine"
  /\ isRunning' = TRUE
  /\ urlQueue' = Append(urlQueue, [url |-> config.targetUrl, depth |-> 0])
  /\ placed' = placed \cup {[url |-> config.targetUrl, depth |-> 0, by |-> "seed"]}
  /\ processedCount' = 0
  /\ visitedUrls' = visitedUrlsAtCall
  /\ pc' = IF config.respectRobots THEN "robots" ELSE "loop"
  /\ UNCHANGED <<returned, progress, waited, attempt, page, response, call, variant, site, config,
                 results, cur, strategy, stopRequested, shiftedOnce, shiftedAgain,
                 processed, failed>>

RepeatNext ==
  \/ Scrape
  \/ ScrapeAgain
  \/ LoopExit
  \/ SkipEntry
  \/ BeginPage
  \/ EngineFetchFail
  \/ EngineAllFailed
  \/ EngineFetchOk

RepeatSpec == RepeatInit /\ [][RepeatNext]_vars

\* ------------------------------------------------------------------------
\* The pure functions called on their own
\* ------------------------------------------------------------------------

PureInit ==
  /\ variant = "engine"
  /\ site = "single"
  /\ config = [targetUrl |-> SeedRoot, maxPages |-> 1, delayMs |-> 0,
                maxDepth |-> 0, respectRobots |-> FALSE]
  /\ Constructed
  /\ call = NoCall

\* a call of detectContentType(title, content, url)
CallDetectContentType ==
  /\ call = NoCall
  /\ \E title \in { <<"Untitled">>, <<"Our", " ", "Blog">>, <<"Blog", " ", "Guide">>,
                     <<"User", " ", "Guide">>, <<"Documentation">>, <<"Weblog">>,
                     <<"Article", " ", "Guide">>, <<"guidebook">> },
        content \in { <<>>, <<"Full", " ", "Transcript">> },
        url \in { SeedRoot, SeedBlog,
                Https \o <<"example", ".", "com", "/", "blog", "/", "post-1">>,
                Https \o <<"example", ".", "com", "/", "docs", "/", "intro">>,
                Https \o <<"example", ".", "com", "/", "article", "/", "a1">>,
                Https \o <<"example", ".", "com", "/", "guide", "/", "g1">>,
                Https \o <<"example", ".", "com", "/", "podcast", "/", "ep1">>,
                Https \o <<"example", ".", "com", "/", "Guide", "/", "Blog", "/">> } :
        call' = [op |-> "detectContentType",
                 arg |-> [title |-> title, content |-> content, url |-> url],
                 out |-> detectContentType(title, content, url)]
  /\ UNCHANGED <<returned, progress, waited, attempt, page, response, variant, site, config, pc, urlQueue, visitedUrls,
                 results, processedCount, cur, strategy, isRunning, stopRequested,
                 shiftedOnce, shiftedAgain, placed, processed, failed>>

\* a call of generateUserId(author)
CallGenerateUserId ==
  /\ call = NoCall
  /\ \E author \in ({JaneDoe} \cup UNION {[1..n -> ({0, 65, 101, 65535})] : n \in 0..MaxAuthorLen}) :
        call' = [op |-> "generateUserId", arg |-> author,
                 out |-> generateUserId(author)]
  /\ UNCHANGED <<returned, progress, waited, attempt, page, response, variant, site, config, pc, urlQueue, visitedUrls,
                 results, processedCount, cur, strategy, isRunning, stopRequested,
                 shiftedOnce, shiftedAgain, placed, processed, failed>>

\* what querySelector finds for each selector, in the order of
\* contentSelectors: at most MaxCandidates selectors match an element
Founds ==
  UNION { { [i \in 1..Len(contentSelectors) |-> IF i \in S THEN g[i] ELSE Absent] :
              g \in [S -> ({150, 200, 201, 600, 12000})] } :
          S \in {T \in SUBSET (1..Len(contentSelectors)) : Cardinality(T) <= MaxCandidates} }

\* the content strategies of extractContent run on a document, and the
\* length of the content of the item extractContent returns
CallStrategies ==
  /\ call = NoCall
  /\ \E found \in Founds, body \in ({100, 600}) :
        call' = [op |-> "strategies", arg |-> [found |-> found, body |-> body],
                 out |-> strategyContent(found, body),
                 kept |-> contentKept(strategyContent(found, body).len)]
  /\ UNCHANGED <<returned, progress, waited, attempt, page, response, variant, site, config, pc, urlQueue, visitedUrls,
                 results, processedCount, cur, strategy, isRunning, stopRequested,
                 shiftedOnce, shiftedAgain, placed, processed, failed>>

\* no error message, no result
NoMessage == <<>>

\* what supabase.functions.invoke resolves to: {data: result, error}, where
\* the result is absent (data.present = FALSE), carries an error message, or
\* carries up to MaxItems items
InvokeReplies ==
  { [error |-> <<"Edge Function returned a non-2xx status code">>,
     data |-> [present |-> FALSE, error |-> NoMessage, items |-> <<>>]],
    [error |-> NoMessage,
     data |-> [present |-> FALSE, error |-> NoMessage, items |-> <<>>]],
    [error |-> NoMessage,
     data |-> [present |-> TRUE, error |-> InvalidUrlMessage, items |-> <<>>]] }
  \cup { [error |-> NoMessage,
          data |-> [present |-> TRUE, error |-> NoMessage, items |-> items]] :
         items \in UNION {[1..n -> ({ [source_url |-> SeedBlog], [source_url |-> SeedRoot] })] : n \in 0..MaxItems} }

\* the callbacks of the forEach with onDataExtracted called before onProgress
reportedDataFirst(items) ==
  [k \in 1..(2 * Len(items)) |->
     IF k % 2 = 0
     THEN [fn |-> "onProgress", current |-> k \div 2, total |-> Len(items),
           url |-> items[k \div 2].source_url]
     ELSE [fn |-> "onDataExtracted", item |-> items[(k + 1) \div 2]]]

\* result.items.forEach((item, index) => { onProgress?.(index + 1,
\* result.items.length, item.source_url); onDataExtracted?.(item) })
reported(items) ==
  [k \in 1..(2 * Len(items)) |->
     IF k % 2 = 1
     THEN [fn |-> "onProgress", current |-> (k + 1) \div 2, total |-> Len(items),
           url |-> items[(k + 1) \div 2].source_url]
     ELSE [fn |-> "onDataExtracted", item |-> items[k \div 2]]]

\* ServerScraper.scrapeWebsite of the client: the types of its onLog
\* entries, its onProgress and onDataExtracted calls in order, the message
\* of the Error it throws (NoMessage when it returns) and the items of the
\* result it returns
scrapeWebsite(reply) ==
  LET thrown == IF reply.error # NoMessage
                  THEN <<"Server error: ">> \o reply.error
                ELSE IF ~reply.data.present
                  THEN <<"No data returned from server">>
                ELSE reply.data.error
  IN  IF thrown # NoMessage
      THEN [logs |-> <<"info", "info", "error">>, calls |-> <<>>,
            thrown |-> thrown, items |-> <<>>]
      ELSE [logs |-> <<"info", "info", "success">>,
            calls |-> reported(reply.data.items),
            thrown |-> NoMessage, items |-> reply.data.items]

\* a call of ServerScraper.scrapeWebsite with all callbacks given
CallScrapeWebsite ==
  /\ call = NoCall
  /\ \E reply \in InvokeReplies :
        call' = [op |-> "scrapeWebsite", arg |-> reply, out |-> scrapeWebsite(reply)]
  /\ UNCHANGED <<returned, progress, waited, attempt, page, response, variant, site, config, pc, urlQueue, visitedUrls,
                 results, processedCount, cur, strategy, isRunning, stopRequested,
                 shiftedOnce, shiftedAgain, placed, processed, failed>>

PureNext ==
  CallDetectContentType \/ CallGenerateUserId \/ CallStrategies \/ CallScrapeWebsite

PureSpec == PureInit /\ [][PureNext]_vars

\* ------------------------------------------------------------------------
\* Properties
\* ------------------------------------------------------------------------

Max(a, b) == IF a > b THEN a ELSE b

IsPrefix(a, b) == Len(a) <= Len(b) /\ SubSeq(b, 1, Len(a)) = a

NoRepeats(seq) == \A i, j \in 1..Len(seq) : i # j => seq[i] # seq[j]

\* the hostname is the seed's hostname or a subdomain of it
OnSeedDomain(url) ==
  LET seedHost == hostname(config.targetUrl)
  IN  \/ hostname(url) = seedHost
      \/ /\ Len(hostname(url)) > Len(seedHost) + 1
         /\ SubSeq(hostname(url), Len(hostname(url)) - Len(seedHost), Len(hostname(url)))
              = <<".">> \o seedHost

\* C1 as stated: no URL is removed from urlQueue by shift() more than once
C1_NoUrlShiftedTwice == shiftedAgain = {}

\* C1 amended: no URL is processed (dequeued, not skipped, marked visited
\* and fetched) more than once; the processed URLs are the visited ones
C1_NoUrlProcessedTwice ==
  /\ NoRepeats(processed)
  /\ visitedUrls = {processed[i] : i \in 1..Len(processed)}

\* a second copy of a processed URL was removed from the queue
C1_Witness ==
  /\ shiftedAgain # {}
  /\ \E i \in 1..Len(processed) : processed[i] \in shiftedAgain

C4_SameDomain ==
  /\ \A e \in placed : e.by = "link" => OnSeedDomain(e.url)
  /\ \A i \in 1..Len(results) : OnSeedDomain(results[i].source_url)

\* a page on a subdomain was queued by link discovery and yielded an item
C4_Witness ==
  /\ \E e \in placed : e.by = "link" /\ hostname(e.url) # hostname(config.targetUrl)
  /\ \E i \in 1..Len(results) :
        hostname(results[i].source_url) # hostname(config.targetUrl)

\* C5: scrape() eventually returns, whatever the link graph, when every
\* fetch attempt completes or fails
C5_Terminates == <>(pc = "done")

\* scrape() returned after taking already visited URLs from the queue again
C5_Witness ==
  /\ pc = "done"
  /\ shiftedAgain # {}
  /\ Len(processed) >= 3

\* C6 as stated: when scrape() returns, urlQueue is empty or the number of
\* processed pages equals the effective maxPages
C6_DrainedOrCapped ==
  pc = "done" =>
    \/ Len(urlQueue) = 0
    \/ processedCount = Min(config.maxPages,
                            IF variant = "engine" THEN EngineCeiling ELSE ServerCeiling)

\* C6 amended: when scrape() returns, urlQueue is empty or the number of
\* processed pages is the effective maxPages, or 0 when that is negative
C6_DrainedOrCappedAtZero ==
  pc = "done" =>
    \/ Len(urlQueue) = 0
    \/ processedCount =
         Max(0, Min(config.maxPages,
                    IF variant = "engine" THEN EngineCeiling ELSE ServerCeiling))

\* scrape() returned at the page cap with entries left in the queue
C6_Witness ==
  /\ pc = "done"
  /\ Len(urlQueue) > 0
  /\ processedCount = config.maxPages
  /\ processedCount > 1

\* C7: a page that fails never aborts the crawl: the loop goes on, the items
\* accumulated so far stay, and scrape() still returns
C7_FailureIsolated ==
  /\ [][failed' # failed =>
          /\ pc' \in {"loop", "delay"}
          /\ IsPrefix(results, results')
          /\ urlQueue' = urlQueue]_vars
  /\ [](failed # {} => <>(pc = "done"))

\* scrape() returned although a page failed, and a later page gave an item
C7_Witness ==
  /\ pc = "done"
  /\ \E i, j \in 1..Len(processed) :
        /\ i < j
        /\ processed[i] \in failed
        /\ \E k \in 1..Len(results) : results[k].source_url = processed[j]

\* C8: no fetch blocks the crawl loop for ever: every awaited request is
\* ended by a response, an error or its timeout
C8_NoFetchBlocks == pc # "blocked"

\* C9: once stop was requested no further page is taken from the queue and
\* fetched
C9_StopIsHonoured == [][stopRequested => processedCount' = processedCount]_vars

\* C10: in the edge function no item has a listing page as its source_url
C10_ListingYieldsNoItem ==
  variant = "server" =>
    \A i \in 1..Len(results) : ~isBlogListingPage(results[i].source_url)

\* a listing page was fetched, its links were queued, and the run produced
\* an item from one of them
C10_Witness ==
  /\ variant = "server"
  /\ pc = "done"
  /\ \E e \in placed : e.by = "link"
  /\ Len(results) > 0

\* the set of the elements of a sequence
Range(seq) == {seq[i] : i \in 1..Len(seq)}

\* the step in which the body of a fetched page has been read and handled
PageHandled == page = NoPage /\ page' # NoPage

\* C11: after a listing page is processed by the edge function, every link
\* harvested from it that is not yet visited sits in urlQueue ahead of every
\* entry that was there before, one entry per link; a listing with three
\* distinct qualifying anchors puts exactly three entries at the head
C11_ListingLinksAtHead ==
  [][(variant = "server" /\ PageHandled /\ isBlogListingPage(cur.url)) =>
       LET k == Len(urlQueue') - Len(urlQueue)
           harvested == Range(extractArticleLinks(page', cur.url, domain)) \ visitedUrls
       IN  /\ k = Cardinality(harvested)
           /\ SubSeq(urlQueue', k + 1, Len(urlQueue')) = urlQueue
           /\ {urlQueue'[i].url : i \in 1..k} = harvested
           /\ (page' = DocListing /\ cur.url = SeedBlog) =>
                 /\ k = 3
                 /\ harvested =
                      { Https \o <<"example", ".", "com", "/", "blog", "/", "post-1">>,
                        Https \o <<"example", ".", "com", "/", "blog", "/", "post-2">>,
                        Https \o <<"example", ".", "com", "/", "blog", "/", "page", "/", "2", "/">> }
  ]_vars

\* a second listing page put its links ahead of the entries left by the first
C11_Witness ==
  /\ variant = "server"
  /\ pc \in {"loop", "delay"}
  /\ page # NoPage
  /\ isBlogListingPage(cur.url)
  /\ cur.url # config.targetUrl
  /\ Len(urlQueue) >= 3
  /\ urlQueue[1].url = urlQueue[Len(urlQueue) - 1].url

\* C12: after a successfully fetched content page (any page of the engine,
\* a page that is not a listing page in the edge function) the page's
\* qualifying, not yet visited same-domain links are appended to the tail of
\* urlQueue with depth = page depth + 1, whether or not the page gave an item
C12_ContentPageLinksAtTail ==
  [][(PageHandled /\ ~(variant = "server" /\ isBlogListingPage(cur.url))) =>
       urlQueue' = urlQueue \o EngineNewEntries(page', cur.url, cur.depth)]_vars

\* the positions of the processed pages that items come from increase
\* along results
RECURSIVE InOrderOf(_, _)
InOrderOf(urls, order) ==
  IF urls = <<>> THEN TRUE
  ELSE IF order = <<>> THEN FALSE
  ELSE IF Head(urls) = Head(order) THEN InOrderOf(Tail(urls), Tail(order))
  ELSE InOrderOf(urls, Tail(order))

\* C13: results is append-only and ordered by extraction: every step leaves
\* the earlier items unchanged at their positions, and the items come from
\* pages in the order in which the pages were dequeued, one item per page at
\* most
C13_ResultsAppendOnly ==
  /\ [][IsPrefix(results, results') /\ Len(results') <= Len(results) + 1]_vars
  /\ [](InOrderOf([i \in 1..Len(results) |-> results[i].source_url], processed))

\* a run returned two items, from the second and a later processed page
C13_Witness ==
  /\ pc = "done"
  /\ Len(results) >= 2
  /\ Len(processed) >= 3
  /\ results[1].source_url # processed[1]
  /\ results[1].source_url # results[2].source_url

\* C14: no URL queued by link discovery matches an exclusion pattern,
\* whether it comes from an anchor, from a data-url attribute or from a
\* listing page
C14_NoExcludedLinkQueued ==
  \A e \in placed :
     e.by = "link" =>
        ~ \/ endsWithExtension(e.url, EngineExtensions)
          \/ includes(e.url, <<"/", "api", "/">>)
          \/ includes(e.url, <<"/", "admin", "/">>)
          \/ includesSlashWord(e.url, "login")
          \/ includesSlashWord(e.url, "register")
          \/ includesSlashWord(e.url, "search")
          \/ includes(e.url, <<"/", "tag", "/">>)
          \/ includes(e.url, <<"/", "category", "/">>)
          \/ includes(e.url, <<"#">>)

\* the labels of detectContentType in their priority order
Labels ==
  <<"blog", "documentation", "article", "guide", "transcript",
    "podcast_transcript", "other">>

\* C15: detectContentType returns the label of the first rule, in the order
\* blog, documentation, article, guide, transcript, podcast_transcript,
\* other, whose condition holds; a title with both "blog" and "guide" gives
\* "blog"
C15_FirstMatchWins ==
  call.op = "detectContentType" =>
    LET t == toLowerCase(call.arg.title)
        c == toLowerCase(call.arg.content)
        u == toLowerCase(call.arg.url)
        holds == << includes(u, <<"/", "blog", "/">>) \/ includesWord(t, "blog"),
                    includes(u, <<"/", "docs", "/">>) \/ includesWord(t, "documentation"),
                    includes(u, <<"/", "article", "/">>) \/ includesWord(t, "article"),
                    includes(u, <<"/", "guide", "/">>) \/ includesWord(t, "guide"),
                    includesWord(c, "transcript"),
                    includes(u, <<"/", "podcast", "/">>),
                    TRUE >>
        first == CHOOSE i \in 1..Len(Labels) : holds[i] /\ \A j \in 1..(i - 1) : ~holds[j]
    IN  /\ call.out = Labels[first]
        /\ (holds[1] /\ holds[4]) => call.out = "blog"

\* a title with "Blog" and "Guide" at a URL that matches no rule was
\* classified "blog"
C15_Witness ==
  /\ call.op = "detectContentType"
  /\ call.arg.title = <<"Blog", " ", "Guide">>
  /\ call.arg.url = SeedRoot
  /\ call.out = "blog"

\* the crawl of the one-page site seeded with https://example.com/blog has
\* returned, and the page, an <article> of 600 characters with the author
\* meta tag, was fetched and read
JanePageCrawled ==
  /\ site = "single"
  /\ config.targetUrl = SeedBlog
  /\ pc = "done"
  /\ page \in {DocJane, DocJaneBlog}

C17_ShortPageYieldsNothing ==
  [][(/\ PageHandled
      /\ \/ variant = "engine" /\ page'.len < 100
         \/ variant = "server" /\ page'.article < 500 /\ page'.body < 500)
       => /\ results' = results
          /\ pc' \in {"loop", "delay"}
          /\ processedCount' = processedCount]_vars

\* the engine read a seed page of 50 characters, added no item, went on to
\* a page it had linked to and took an item from that one
C17_Witness ==
  /\ variant = "engine"
  /\ failed = {}
  /\ Len(processed) = 2
  /\ Len(results) = 1
  /\ results[1].source_url = processed[2]
  /\ ~results[1].placeholder

\* C18: every item returned by a crawl has content of at most 10000
\* characters, in the edge function and in ScrapingEngine alike
C18_ContentCapped ==
  \A i \in 1..Len(results) : results[i].len <= 10000

RECURSIVE RollingHash(_)
\* h starts at 0 and becomes 31 * h + c, modulo 2^32, for each code c
RollingHash(codes) ==
  IF codes = <<>> THEN Zero32
  ELSE LET h == RollingHash(SubSeq(codes, 1, Len(codes) - 1))
           l == h.lo * 31 + codes[Len(codes)]
       IN  [hi |-> (h.hi * 31 + l \div Half) % Half, lo |-> l % Half]

\* the absolute value of the signed reading of a pattern: 2^32 - h for a
\* pattern with the sign bit set
Magnitude(h) ==
  IF h.hi < 32768 THEN h
  ELSE [hi |-> 65535 - h.hi + (IF h.lo = 0 THEN 1 ELSE 0), lo |-> (Half - h.lo) % Half]

RECURSIVE FromDecimal(_)
\* the number written by a sequence of decimal digits, as a pattern
FromDecimal(digits) ==
  IF digits = <<>> THEN Zero32
  ELSE LET v == FromDecimal(SubSeq(digits, 1, Len(digits) - 1))
           l == v.lo * 10 + digits[Len(digits)]
       IN  [hi |-> v.hi * 10 + l \div Half, lo |-> l % Half]

\* C19: generateUserId(author) is "user_" followed by the decimal absolute
\* value of h, where h starts at 0 and becomes (31 * h + c) wrapped to a
\* signed 32-bit integer for each character code c; the number is in
\* 0..2^31, and the call leaves the crawl state alone
C19_RollingHashIdentity ==
  /\ call.op = "generateUserId" =>
       LET digits == Tail(call.out)
           m == Magnitude(RollingHash(call.arg))
       IN  /\ Head(call.out) = "user_"
           /\ Len(digits) >= 1
           /\ \A i \in 1..Len(digits) : digits[i] \in 0..9
           /\ Len(digits) > 1 => digits[1] # 0
           /\ FromDecimal(digits) = m
           /\ m.hi < 32768 \/ (m.hi = 32768 /\ m.lo = 0)
  /\ call # NoCall => pc = "idle" /\ urlQueue = <<>> /\ results = <<>> /\ visitedUrls = {}

\* an author string whose hash wrapped to a negative number was rendered
\* as a positive number
C19_Witness ==
  /\ call.op = "generateUserId"
  /\ Len(call.arg) = MaxAuthorLen
  /\ RollingHash(call.arg).hi >= 32768
  /\ Len(call.out) >= 10

\* C20: an OPTIONS request to the edge function is answered with the CORS
\* headers without a scraper being constructed or a fetch issued, and every
\* other response of the handler, result or error, carries the CORS headers
C20_PreflightAndCors ==
  [][(response' # response /\ response' # NoResponse) =>
       /\ corsHeaders \subseteq response'.headers
       /\ response'.method = "OPTIONS" =>
             /\ response'.headers = corsHeaders
             /\ pc = "idle" /\ pc' = "idle"
             /\ UNCHANGED <<urlQueue, visitedUrls, results, processedCount,
                            cur, strategy, placed, processed, failed, page>>]_vars

\* a preflight request was answered and no crawl had started
C20_Witness ==
  /\ response = optionsResponse
  /\ pc = "idle"
  /\ placed = {}

\* C21: every response of the handler to a request other than OPTIONS that
\* it could not serve (body not JSON, no config, targetUrl that does not
\* parse) has status 500 and a body with the error message, team_id 'error'
\* and no items, and leaves results alone; a response with status 200 is
\* sent only after scrape() returned and carries the team id of the seed's
\* domain and the items of that run
C21_ErrorResponse ==
  [][(response' # response /\ response' # NoResponse /\ response'.method # "OPTIONS") =>
       IF pc' = "done"
       THEN /\ response'.status = 200
            /\ response'.body = [team_id |-> extractTeamId(hostname(config.targetUrl)),
                                 items |-> results']
            /\ response'.body.team_id # <<"error">>
       ELSE /\ response'.status = 500
            /\ DOMAIN response'.body = {"error", "team_id", "items"}
            /\ response'.body.error # <<>>
            /\ response'.body.team_id = <<"error">>
            /\ response'.body.items = <<>>
            /\ results' = results /\ urlQueue' = urlQueue]_vars

\* the handler answered 500 for a targetUrl that does not parse
C21_Witness ==
  /\ variant = "server"
  /\ pc = "rejected"
  /\ response # NoResponse
  /\ response.status = 500
  /\ response.body.error = <<"Invalid", " ", "URL">>

\* C22: with a targetUrl that does not parse the constructor throws before
\* anything else happens: no entry is ever put in urlQueue and no page or
\* robots.txt is ever fetched
C22_InvalidSeedIsFatal ==
  ~IsValidURL(config.targetUrl) =>
    /\ pc \in {"idle", "rejected"}
    /\ urlQueue = <<>> /\ placed = {}
    /\ processed = <<>> /\ visitedUrls = {} /\ failed = {}
    /\ page = NoPage /\ results = <<>>

\* the constructor of ScrapingEngine threw for a configuration that asked
\* for robots.txt
C22_Witness ==
  /\ variant = "engine"
  /\ config.targetUrl = SeedBad
  /\ config.respectRobots
  /\ pc = "rejected"

\* C23: with delayMs > 0, whenever a page is taken up for fetching after an
\* earlier page of the same crawl, delay() has been awaited since that
\* earlier page was taken up, whether its fetch succeeded or failed
C23_DelayBetweenFetches ==
  [][(pc = "loop" /\ pc' = "fetch" /\ processed # <<>> /\ config.delayMs > 0)
       => waited]_vars

\* the replies that make a strategy fail: an exception (network error or
\* timeout), a non-2xx status and, for a proxy, a body that is not a string
\* longer than 100 characters
AttemptFailed(reply, k) ==
  \/ reply \in {"error", "no_reply", "status"}
  \/ k > 0 /\ reply = "bad_body"

\* C24: scrapePage starts with the direct fetch and tries the proxies in
\* list order; the next strategy is tried only after the current one failed
\* (exception, non-2xx, or for a proxy an unusable body), the page is handed
\* on only by a strategy that did not fail, nothing is tried after that, and
\* scrapePage gives up only after the last proxy failed
C24_StrategyOrder ==
  /\ [][(pc = "loop" /\ pc' = "fetch") => strategy' = 0]_vars
  /\ [][(variant = "engine" /\ pc = "fetch") =>
          /\ strategy' # strategy =>
                /\ strategy' = strategy + 1
                /\ strategy' \in 1..Len(corsProxies)
                /\ AttemptFailed(attempt', strategy)
                /\ pc' = "fetch"
                /\ page' = NoPage /\ results' = results /\ urlQueue' = urlQueue
          /\ PageHandled =>
                /\ ~AttemptFailed(attempt', strategy)
                /\ strategy' = strategy
                /\ pc' \in {"loop", "delay"}
          /\ (pc' \in {"loop", "delay"} /\ ~PageHandled) =>
                /\ strategy = Len(corsProxies)
                /\ AttemptFailed(attempt', strategy)]_vars

\* the direct fetch and the first two proxies failed, the last proxy
\* delivered the page
C24_Witness ==
  /\ variant = "engine"
  /\ strategy = 3
  /\ corsProxies[strategy] = "cors-anywhere.herokuapp.com"
  /\ attempt = "ok"
  /\ page # NoPage
  /\ pc \in {"loop", "delay"}

\* the links a fetched page yields, in the order in which they are found in
\* the page, without those already visited
Discovered(html, url) ==
  LET links == IF variant = "engine" THEN extractLinks(html, url, domain)
               ELSE IF isBlogListingPage(url) THEN extractArticleLinks(html, url, domain)
               ELSE <<>>
  IN  Pick(links, {i \in 1..Len(links) : links[i] \notin visitedUrls})

\* C25: entries of one priority tier leave the queue first-in first-out:
\* entries are taken from the head only, the links harvested from a listing
\* page stand at the head in the order in which they were found in the page,
\* and tail-enqueued links stand at the tail in that order
C25_FifoWithinTier ==
  /\ [][(pc = "loop" /\ urlQueue' # urlQueue) => urlQueue' = Tail(urlQueue)]_vars
  /\ [][PageHandled =>
          LET k == Len(urlQueue') - Len(urlQueue)
              added == IF variant = "server" THEN SubSeq(urlQueue', 1, k)
                       ELSE SubSeq(urlQueue', Len(urlQueue) + 1, Len(urlQueue'))
          IN  Tup([i \in 1..k |-> added[i].url]) = Discovered(page', cur.url)]_vars

\* C26: visited membership is checked at both ends of the queue: no step
\* adds to urlQueue an entry whose URL is in visitedUrls, and an entry taken
\* from the queue whose URL is in visitedUrls is dropped without a fetch,
\* without counting as a page and without a delay
C26_VisitedCheckedTwice ==
  /\ [][Len(urlQueue') > Len(urlQueue) =>
          LET k == Len(urlQueue') - Len(urlQueue)
              added == IF SubSeq(urlQueue', k + 1, Len(urlQueue')) = urlQueue
                       THEN SubSeq(urlQueue', 1, k)
                       ELSE SubSeq(urlQueue', Len(urlQueue) + 1, Len(urlQueue'))
          IN  /\ \/ SubSeq(urlQueue', k + 1, Len(urlQueue')) = urlQueue
                 \/ SubSeq(urlQueue', 1, Len(urlQueue)) = urlQueue
              /\ \A i \in 1..k : added[i].url \notin visitedUrls]_vars
  /\ [][(/\ pc = "loop"
         /\ urlQueue' # urlQueue
         /\ Head(urlQueue).url \in visitedUrls)
          => /\ urlQueue' = Tail(urlQueue)
             /\ pc' = "loop"
             /\ UNCHANGED <<processedCount, processed, visitedUrls, results,
                            failed, waited, page, cur>>]_vars

\* the engine found a link to a page it had visited and left it out, and
\* dropped a second entry of a page it had visited in between
C26_Witness ==
  /\ variant = "engine"
  /\ pc = "done"
  /\ config.delayMs > 0
  /\ page = DocArticle
  /\ Len(processed) >= 3
  /\ \E u \in shiftedAgain : u \in visitedUrls
  /\ \A i \in 1..Len(urlQueue) : urlQueue[i].url # config.targetUrl

\* C27: the placeholder item of ScrapingEngine is made only when every
\* fetch strategy failed for a depth-0 entry while results was empty: results
\* holds at most one placeholder, it is the first item, its source_url is the
\* seed URL, and the total failure of any other URL adds no item
C27_PlaceholderOnlyForSeed ==
  /\ [](\A i \in 1..Len(results) :
           results[i].placeholder =>
              /\ i = 1
              /\ variant = "engine"
              /\ results[i].source_url = config.targetUrl
              /\ results[i].source_url \in failed)
  /\ [][(Len(results') > Len(results) /\ results'[Len(results')].placeholder) =>
          /\ cur.depth = 0 /\ results = <<>>
          /\ strategy = Len(corsProxies)
          /\ AttemptFailed(attempt', strategy)
          /\ page' = NoPage]_vars
  /\ [][(failed' # failed /\ cur.url # config.targetUrl) => results' = results]_vars

\* the seed failed on every strategy and the crawl returned the placeholder
C27_Witness ==
  /\ variant = "engine"
  /\ pc = "done"
  /\ Len(results) = 1
  /\ results[1].placeholder
  /\ failed = {config.targetUrl}

\* C28: the robots.txt step is advisory: whatever the reply to the
\* robots.txt request, checkRobotsTxt returns and the crawl enters its loop
\* with urlQueue, visitedUrls and results as scrape() without respectRobots
\* has them there (the seed queued, nothing visited, no item), so that the
\* same pages are fetched and the same items returned
C28_RobotsAdvisory ==
  [][(pc = "robots" /\ pc' # "robots") =>
       /\ pc' = "loop"
       /\ urlQueue' = <<[url |-> config.targetUrl, depth |-> 0]>>
       /\ visitedUrls' = {} /\ results' = <<>> /\ processedCount' = 0
       /\ UNCHANGED <<urlQueue, visitedUrls, results, processedCount, cur,
                      strategy, placed, processed, failed, page>>]_vars

\* C29: the content body of the edge function's extractContent is the
\* cleaned text of the first selector, in the order article, [role="main"],
\* main, .post-content, ..., .post-single, whose first matching element has
\* more than 200 characters of cleaned text; the body without the unwanted
\* elements is used only if no selector qualifies
C29_SelectorWaterfall ==
  /\ Len(contentSelectors) = 12
  /\ SubSeq(contentSelectors, 1, 4) = <<"article", "[role=\"main\"]", "main", ".post-content">>
  /\ contentSelectors[12] = ".post-single"
  /\ call.op = "strategies" =>
       LET found == call.arg.found
           q == {i \in 1..12 : found[i] # Absent /\ found[i] > 200}
       IN  /\ q = {} => call.out = [from |-> "body", len |-> call.arg.body]
           /\ q # {} =>
                \E i \in q :
                   /\ \A j \in q : i <= j
                   /\ call.out = [from |-> contentSelectors[i], len |-> found[i]]

\* a <main> of 201 characters was taken although a longer .content element
\* follows it in the list
C29_Witness ==
  /\ call.op = "strategies"
  /\ call.arg.found[1] = Absent
  /\ call.arg.found[3] = 201
  /\ call.arg.found[8] = 600
  /\ call.out = [from |-> "main", len |-> 201]

\* C30: the title of every item taken from a page is the trimmed text of
\* the page's first <h1> when that is not empty, else the trimmed text of
\* <title> when that is not empty, else 'Untitled', so no item has an empty
\* title; in the edge function and in ScrapingEngine alike
C30_TitleFromHeading ==
  [][(PageHandled /\ Len(results') > Len(results)) =>
       LET item == results'[Len(results')]
       IN  /\ item.title = (IF trim(page'.h1) # <<>> THEN trim(page'.h1)
                            ELSE IF trim(page'.title) # <<>> THEN trim(page'.title)
                            ELSE <<"Untitled">>)
           /\ item.title # <<>>]_vars

\* C31: the team_id of every result scrape() returns is the hostname of the
\* seed URL without one leading "www." and with "_" for every "."; it has no
\* "." in it and is the same whatever was crawled and whatever failed
C31_TeamIdFromSeed ==
  pc = "done" =>
    LET host == hostname(config.targetUrl)
        www == Len(host) >= 2 /\ host[1] = "www" /\ host[2] = "."
        off == IF www THEN 2 ELSE 0
        id == returned.team_id
    IN  /\ Len(id) = Len(host) - off
        /\ \A i \in 1..Len(id) :
              /\ id[i] # "."
              /\ id[i] = (IF host[i + off] = "." THEN "_" ELSE host[i + off])
        /\ config.targetUrl = SeedWww => id = <<"shop", "_", "example", "_", "com">>
        /\ config.targetUrl = SeedBlog => id = <<"example", "_", "com">>
        /\ returned.items = results
        /\ variant = "server" => response.body.team_id = id

\* the crawl of the www seed returned after its only page had failed
C31_Witness ==
  /\ pc = "done"
  /\ config.targetUrl = SeedWww
  /\ failed # {}
  /\ returned.team_id = <<"shop", "_", "example", "_", "com">>

\* C32: the client's scrapeWebsite reports only after the edge function has
\* answered: on success it calls onProgress(i, n, items[i].source_url) and
\* then onDataExtracted(items[i]) for i = 1..n in order, the last onProgress
\* having current = total = n, and returns the result; on an invoke error, a
\* missing result or a result with an error it calls neither callback, makes
\* one onLog entry of type error and throws
C32_ClientReports ==
  call.op = "scrapeWebsite" =>
    LET reply == call.arg
        out == call.out
        items == reply.data.items
        n == Len(items)
        failure == \/ reply.error # NoMessage
                   \/ ~reply.data.present
                   \/ reply.data.error # NoMessage
    IN  IF failure
        THEN /\ out.calls = <<>>
             /\ Cardinality({k \in 1..Len(out.logs) : out.logs[k] = "error"}) = 1
             /\ out.logs[Len(out.logs)] = "error"
             /\ out.thrown # NoMessage
        ELSE /\ out.thrown = NoMessage
             /\ out.items = items
             /\ \A k \in 1..Len(out.logs) : out.logs[k] # "error"
             /\ Len(out.calls) = 2 * n
             /\ \A i \in 1..n :
                   /\ out.calls[2 * i - 1] =
                        [fn |-> "onProgress", current |-> i, total |-> n,
                         url |-> items[i].source_url]
                   /\ out.calls[2 * i] = [fn |-> "onDataExtracted", item |-> items[i]]
             /\ n > 0 => /\ out.calls[2 * n - 1].current = n
                         /\ out.calls[2 * n - 1].total = n

\* a result with two items of different pages was reported
C32_Witness ==
  /\ call.op = "scrapeWebsite"
  /\ Len(call.out.calls) = 4
  /\ call.arg.data.items[1] # call.arg.data.items[2]
  /\ call.out.calls[3].current = 2

\* C33: within one scrape() run no URL is fetched more than once: the URL
\* being fetched is in visitedUrls already, a URL whose fetch failed is not
\* taken up again, no two items of the result have the same source_url and
\* the source_url of every item is in visitedUrls
C33_FetchedOnce ==
  /\ \A u \in Range(processed) :
        Cardinality({i \in 1..Len(processed) : processed[i] = u}) = 1
  /\ pc \in {"fetch", "delay"} => cur.url \in visitedUrls
  /\ failed \subseteq visitedUrls
  /\ \A i \in 1..Len(results) :
        /\ results[i].source_url \in visitedUrls
        /\ \A j \in 1..Len(results) :
              results[i].source_url = results[j].source_url => i = j

\* a URL whose fetch had failed came out of the queue a second time and was
\* skipped, and the crawl returned items
C33_Witness ==
  /\ pc = "done"
  /\ failed \cap shiftedAgain # {}
  /\ Len(results) >= 2

\* C34: on a fresh instance, at every loop boundary processedCount is the
\* size of visitedUrls and the result has at most processedCount items; a page
\* that failed or gave no item has used one unit of the budget, a skipped
\* entry uses none
C34_BudgetCountsVisited ==
  /\ [](pc \in {"loop", "done"} =>
          /\ processedCount = Cardinality(visitedUrls)
          /\ Len(results) <= processedCount
          /\ Cardinality(failed \cup {results[i].source_url : i \in 1..Len(results)})
               <= processedCount)
  /\ [][pc = "loop" /\ pc' = "loop" /\ Len(urlQueue') < Len(urlQueue)
          => processedCount' = processedCount]_vars
  /\ [][pc = "fetch" /\ pc' \in {"loop", "delay"} /\ Len(results') = Len(results)
          => /\ processedCount' = processedCount
             /\ cur.url \in visitedUrls
             /\ processedCount = Cardinality(visitedUrls)]_vars

\* at a loop boundary after a failed page and a skipped entry, with fewer
\* items than pages counted
C34_Witness ==
  /\ pc = "loop"
  /\ failed # {}
  /\ shiftedAgain # {}
  /\ Len(results) >= 1
  /\ Len(results) < processedCount

\* C35: in the edge function's extractContent the first selector candidate
\* longer than 200 characters is final: when it is shorter than 500 the page
\* gives no item, whatever a later candidate or the stripped body holds; the
\* content of every item is between 500 and 10000 characters long
C35_FirstCandidateFinal ==
  call.op = "strategies" =>
    LET found == call.arg.found
        q == {i \in 1..12 : found[i] # Absent /\ found[i] > 200}
        taken == IF q = {} THEN call.arg.body
                 ELSE found[CHOOSE i \in q : \A j \in q : i <= j]
    IN  /\ taken < 500 => call.kept = Absent
        /\ taken >= 500 => call.kept = (IF taken > 10000 THEN 10000 ELSE taken)
        /\ call.kept # Absent => call.kept >= 500 /\ call.kept <= 10000

\* a first candidate of 201 characters gave no item although a later
\* candidate and the body have 600 characters each
C35_Witness ==
  /\ call.op = "strategies"
  /\ call.arg.found[1] = 201
  /\ \E i \in 2..12 : call.arg.found[i] = 600
  /\ call.arg.body = 600
  /\ call.kept = Absent

\* C36: every item of a result other than the seed placeholder has a user_id
\* exactly when its author is a non-empty string, and the user_id is then
\* generateUserId(author); two items with the same author have the same
\* user_id
C36_UserIdFollowsAuthor ==
  \A i \in 1..Len(results) :
     ~results[i].placeholder =>
        /\ (results[i].user_id # <<>>) <=> (results[i].author # <<>>)
        /\ results[i].author # <<>> =>
              /\ results[i].user_id = generateUserId(results[i].author)
              /\ results[i].user_id[1] = "user_"
        /\ \A j \in 1..Len(results) :
              ~results[j].placeholder /\ results[j].author = results[i].author =>
                 results[j].user_id = results[i].user_id

\* two pages by Jane Doe gave two items with one user_id
C36_Witness ==
  /\ Len(results) >= 2
  /\ results[1].author = JaneDoe
  /\ results[2].author = JaneDoe
  /\ ~results[1].placeholder /\ ~results[2].placeholder
  /\ results[1].user_id = results[2].user_id
  /\ results[1].user_id # <<>>

\* C37: every onProgress(current, total, url) call of ScrapingEngine.scrape
\* has 1 <= current <= total <= min(maxPages, 1000), current is 1 on the
\* first call and one more on each later call, url is the URL being fetched,
\* and the fraction current / total never goes down from one call to the next
C37_ProgressNeverBackwards ==
  /\ [](progress # NoProgress =>
          /\ 1 <= progress.current
          /\ progress.current <= progress.total
          /\ progress.total <= Min(config.maxPages, 1000))
  /\ [](pc = "fetch" /\ variant = "engine" =>
          progress.url = cur.url /\ progress.current = processedCount)
  /\ [][progress' # progress => progress'.current = progress.current + 1]_vars
  /\ [][progress' # progress /\ progress # NoProgress =>
          progress'.current * progress.total >= progress.current * progress'.total]_vars

\* C37 amended: every onProgress(current, total, url) call has
\* 1 <= current <= total <= min(maxPages, 1000), current is 1 on the first
\* call and one more on each later call, and url is the URL being fetched,
\* so current / total never exceeds 1; the first call has total = 1
C37_ProgressArguments ==
  /\ [](progress # NoProgress =>
          /\ 1 <= progress.current
          /\ progress.current <= progress.total
          /\ progress.total <= Min(config.maxPages, 1000)
          /\ progress.current = 1 => progress.total = 1)
  /\ [](pc = "fetch" /\ variant = "engine" =>
          progress.url = cur.url /\ progress.current = processedCount)
  /\ [][progress' # progress => progress'.current = progress.current + 1]_vars

\* the second call reports 2 of 4 after the first reported 1 of 1
C37_Witness ==
  /\ pc = "fetch"
  /\ progress.current = 2
  /\ progress.total = 4
  /\ progress.url = cur.url

\* C38: over any sequence of scrape() calls on one ScrapingEngine no URL is
\* fetched twice, the items a later call returns have the items of every
\* earlier call as a prefix, and the pages fetched over all calls are at
\* most min(maxPages, 1000)
C38_BudgetAcrossCalls ==
  /\ [](NoRepeats(processed))
  /\ [][pc' = "done" /\ pc # "done" => IsPrefix(returned.items, returned'.items)]_vars
  /\ [](Len(processed) <= Max(0, Min(config.maxPages, 1000)))

\* C38 amended: over any sequence of scrape() calls on one ScrapingEngine no
\* URL is fetched twice and the items a later call returns have the items of
\* every earlier call as a prefix; each call fetches at most
\* min(maxPages, 1000) pages, counted from 0 in every call
C38_BudgetPerCall ==
  /\ [](NoRepeats(processed))
  /\ [](visitedUrls = Range(processed))
  /\ [][pc' = "done" /\ pc # "done" => IsPrefix(returned.items, returned'.items)]_vars
  /\ [](processedCount <= Max(0, Min(config.maxPages, 1000)))
  /\ [][pc = "done" /\ pc' # "done" => processedCount' = 0]_vars
  /\ [][processedCount' # processedCount /\ processedCount' # 0 =>
          /\ processedCount' = processedCount + 1
          /\ Len(processed') = Len(processed) + 1]_vars

\* a later call has returned with more items, and more pages have been
\* fetched over the calls than maxPages
C38_Witness ==
  /\ pc = "done"
  /\ Len(processed) > config.maxPages
  /\ processedCount < Len(processed)
  /\ Len(returned.items) >= 2
  /\ shiftedAgain # {}

\* C39: in ScraperInterface at most one crawl is in flight: under every
\* interleaving of Start and Stop with the progress and the completion of a
\* crawl, startScraping cannot be called while a crawl has not yet returned
C39_OneCrawlInFlight == InFlight => ~StartShown

====
